---- MODULE Spec2Model ----
(***************************************************************************)
(* Model of the End-VLM data collector: the raw-input collector and its    *)
(* bounded deque (input/src/lib.rs, input/src/rawinput.rs), the frame      *)
(* source's rate gate and step numbering (capture/src/wgc.rs), the step    *)
(* loop (app/src/pipeline.rs, app/src/main.rs) and the transactional       *)
(* session writer (writer/src/lib.rs).                                     *)
(***************************************************************************)
EXTENDS Integers, Sequences, FiniteSets, TLC

\* ---------------------------------------------------------------- bounds
MaxTick == 4          \* a session's clock is explored up to this tick
MaxDrainTick == 3     \* the clock bound when the bare collector API is driven
MaxSent == 3          \* raw-input events the worker decodes in one run
MaxSteps == 3         \* frames the frame source emits in one run
max_events == 2       \* RawInputCollector.max_events (with_limits), scaled down
StepTicks == 2        \* step_ticks of the step loop (qpc_step_ticks), scaled down
CaptureStepTicks == 2 \* step_ticks of the frame source (qpc_frequency / fps)
Delta == 2            \* width of the contiguous windows of the dry run (STEP_MS)
NumWindows == 3       \* contiguous windows drained in the dry run (--steps)
MaxStream == 3        \* length of the pre-recorded event stream
MaxCalls == 2         \* drain_events calls made through the bare collector API
MaxSkips == 1         \* arrived frames next_frame passes over in one run
MaxEvents == 2        \* events in one aggregated window
MaxFrameWrites == 2   \* write_frame calls made on one encoder
MaxPieces == 3        \* pieces the thought provider's text is made of

VARIABLES
    clock,            \* QueryPerformanceCounter
    horizon,          \* the tick up to which this run's clock is explored
    wpending,         \* events handle_raw_input has stamped and not yet sent
    nsent,            \* number of events decoded by the worker so far
    workerAlive,      \* the pumping worker still owns the channel's Sender
    chan,             \* mpsc channel worker -> collector (rx side pending)
    buffer,           \* RawInputCollector.buffer
    dropped_events,   \* RawInputCollector.dropped_events
    last,             \* what the last drain_events call did
    returned,         \* every event returned by drain_events so far, in order
    stream,           \* pre-recorded event stream (MockInputCollector.events / load_events)
    arrived,          \* how many events of stream have reached the channel
    mock_index,       \* MockInputCollector.index / event_index of the dry run
    kind,             \* which InputCollector the caller holds: "raw" or "mock"
    winK,             \* index k of the next contiguous window
    pc,               \* where the session's thread stands
    stop_requested,   \* what should_stop() reports
    loopError,        \* the error the step loop returned to its caller, if any
    okCalls,          \* process_window calls that returned Ok
    step_index,       \* WgcCaptureImpl.step_index
    next_capture_qpc, \* WgcCaptureImpl.next_capture_qpc
    content_size,     \* WgcCaptureImpl.content_size
    skipped,          \* arrived frames next_frame passed over (miss or rate gate)
    frame,            \* the FrameRecord the loop is working on
    tmpDir,           \* <name>.tmp/ exists
    rootDir,          \* <name>/: "absent", "foreign" (made by someone else) or "session"
    tmpFiles,         \* files in <name>.tmp/
    rootFiles,        \* files in <name>/
    actionsLog,       \* step_index of each snapshot written to actions.jsonl
    compiledCount,    \* lines written to compiled_actions.jsonl
    frameCount,       \* frames written to the encoder's stdin
    thoughtCount,     \* lines written to thoughts.jsonl
    finalizeResult,   \* "none" until finalize returns, then "ok" or "err"
    finalize_calls,   \* the calls finalize has made, in order, with their results
    createResult,     \* "none" until SessionWriter::create returns, then "ok", "AlreadyExists" or "io"
    ffmpeg,           \* the encoder child process: "none", "running" or "exited"
    universe,         \* which events this run feeds the aggregator: "keys", "order", "mouse" or "none"
    pending_events,          \* the events of the window that is aggregated next
    down_keys,        \* AggregatorState.down_keys
    key_state,        \* KeyState.down of the compiler
    held,             \* keys whose latest event so far is a KeyDown
    bg_held,          \* keys of held whose latest KeyDown came in a non-foreground window
    input_down,       \* InputState.down_keys, fed the events of every window
    call,              \* arguments of the last aggregate/compile call
    snapshot,         \* the ActionSnapshot the last aggregate_window call returned
    compiled,         \* what the last compile_action_string call computed and returned
    frame_bytes,      \* FfmpegWriter.frame_bytes, 0 while no encoder was spawned
    stdin,            \* the bytes the encoder has been handed on its stdin
    write_frame,      \* the last write_frame call: its buffer and what it returned
    content,          \* the text the thought provider returned for the step
    thought_line,     \* the line process_window made of it
    thoughts_log,     \* the characters written to thoughts.jsonl
    desktop,          \* what the OS reports to the cursor sampler
    sampled,          \* what sample_foreground_and_cursor returned
    owner,            \* where the thread that constructs and drops the collector stands
    worker,           \* the phase of the raw-input worker thread
    init_done,        \* the set-up steps run_message_loop has completed
    ready,            \* the message on the ready channel
    target,           \* RawInputContext.target_hwnd: "some" in foreground-only mode
    foreground,       \* GetForegroundWindow() is the target window
    filtered,         \* WM_INPUT messages handle_raw_input returned from undecoded
    thought,          \* the String inside GuiSessionHandle.thought
    thought_lock,     \* the thread that holds the Mutex around it: "free", "gui" or "loop"
    gui_pc,           \* where set_thought stands in the GUI thread
    gui_text,         \* the argument of the set_thought call in progress
    loop_pc,          \* where the session thread stands in its step
    provided,         \* the text the thought provider returned for the step
    lock_steps,       \* steps the session thread has completed
    set_calls,        \* set_thought calls made so far
    jsonl,            \* one JsonlWriter: its fields, and what its last call did
    session_name,     \* the session name the create call in hand was given
    sessions_dir,     \* <dataset_root>/sessions/ as the earlier runs left it
    earlier           \* the create calls of earlier runs: name, result, <name>.tmp/ left

collectorVars == <<clock, horizon, wpending, nsent, workerAlive, chan, buffer, dropped_events,
                   last, returned>>
mockVars == <<stream, arrived, mock_index, kind, winK>>
loopVars == <<pc, stop_requested, loopError, okCalls>>
frameVars == <<step_index, next_capture_qpc, content_size, skipped, frame>>
writerVars == <<tmpDir, rootDir, tmpFiles, rootFiles, actionsLog, compiledCount,
                frameCount, thoughtCount, finalizeResult, finalize_calls>>
sessionVars == <<loopVars, frameVars, writerVars>>
createVars == <<createResult, ffmpeg>>
workerVars == <<owner, worker, init_done, ready, target, foreground, filtered>>
lockVars == <<thought, thought_lock, gui_pc, gui_text, loop_pc, provided, lock_steps,
              set_calls>>
runVars == <<session_name, sessions_dir, earlier>>
unitVars == <<frame_bytes, stdin, write_frame, content, thought_line, thoughts_log,
              desktop, sampled, workerVars, lockVars, jsonl, runVars>>
aggVars == <<universe, pending_events, down_keys, key_state, held, bg_held, input_down, call,
            snapshot, compiled>>

\* ------------------------------------------------------------- helpers
Max(a, b) == IF a > b THEN a ELSE b

\* u64::saturating_sub
SatSub(a, b) == IF a >= b THEN a - b ELSE 0

\* the last n elements of s (all of s when n >= Len(s))
LastN(s, n) == SubSeq(s, Max(1, Len(s) - n + 1), Len(s))

\* s without its first n elements
DropN(s, n) == SubSeq(s, n + 1, Len(s))

\* number of leading elements of s whose tick is below bound
RECURSIVE FrontBelow(_, _)
FrontBelow(s, bound) ==
    IF s # <<>> /\ Head(s).ts < bound THEN 1 + FrontBelow(Tail(s), bound) ELSE 0

IsTickOrdered(s) == \A i \in 1..Len(s) : \A j \in i..Len(s) : s[i].ts <= s[j].ts

NoLast == [calls |-> 0, start |-> 0, end |-> 0, out |-> <<>>, kept |-> <<>>]

\* ------------------------------------------------ RawInputCollector (pure)

\* RawInputCollector::enforce_limit: drop the excess from the front, count it
EnforceLimit_DropNewest(buf, dropped) ==
    IF Len(buf) <= max_events
       THEN [buffer |-> buf, dropped |-> dropped]
       ELSE [buffer |-> SubSeq(buf, 1, max_events),
             dropped |-> dropped + (Len(buf) - max_events)]
EnforceLimit(buf, dropped) ==
    IF Len(buf) <= max_events
       THEN [buffer |-> buf, dropped |-> dropped]
       ELSE [buffer |-> DropN(buf, Len(buf) - max_events),
             dropped |-> dropped + (Len(buf) - max_events)]

\* first loop of drain_events: pop the front while front.qpc_ts < start
TrimFront_Inclusive(buf, start) == DropN(buf, FrontBelow(buf, start + 1))
TrimFront_None(buf, start) == buf
TrimFront(buf, start) == DropN(buf, FrontBelow(buf, start))

\* second loop of drain_events: pop the front into out while front.qpc_ts < end
TakeWindow_Peek(buf, end) ==
    [out |-> SubSeq(buf, 1, FrontBelow(buf, end)), rest |-> buf]
TakeWindow_Newest(buf, end) ==
    LET n == FrontBelow(buf, end)
    IN [out |-> [i \in 1..n |-> buf[n + 1 - i]], rest |-> DropN(buf, n)]
TakeWindow(buf, end) ==
    [out |-> SubSeq(buf, 1, FrontBelow(buf, end)),
     rest |-> DropN(buf, FrontBelow(buf, end))]

\* RawInputCollector::drain_events on an open channel holding `pending`
DrainEvents(pending, buf, dropped, start, end) ==
    LET pulled == buf \o pending                     \* inner.drain_into
        lim1 == EnforceLimit(pulled, dropped)
        trimmed == TrimFront(lim1.buffer, start)
        lim2 == EnforceLimit(trimmed, lim1.dropped)
        win == TakeWindow(lim2.buffer, end)
    IN [buffer |-> win.rest, dropped |-> lim2.dropped, out |-> win.out,
        kept |-> lim1.buffer]

\* ------------------------------------------------ MockInputCollector (pure)

\* MockInputCollector::drain_events, and the same two loops inlined in run()
MockDrain(events, index, start, end) ==
    LET rest == DropN(events, index)
        passed == FrontBelow(rest, start)
        taken == FrontBelow(DropN(rest, passed), end)
    IN [index |-> index + passed + taken,
        out |-> SubSeq(events, index + passed + 1, index + passed + taken)]

\* ----------------------------------------------------------- the worker

\* the clock advances
Tick ==
    /\ kind = "raw"
    /\ clock < horizon
    /\ clock' = clock + 1
    /\ UNCHANGED <<horizon, wpending, nsent, workerAlive, chan, buffer, dropped_events,
                   last, returned>>
    /\ UNCHANGED mockVars
    /\ UNCHANGED sessionVars
    /\ UNCHANGED <<createVars, aggVars, unitVars>>

\* handle_raw_input's test on entry: with a target registered the message is
\* decoded only while that window is the foreground window
PassesFilter_Always(target_hwnd, is_foreground) == TRUE

PassesFilter(target_hwnd, is_foreground) == target_hwnd = "none" \/ is_foreground

\* handle_raw_input: one WM_INPUT message is stamped with qpc_now() and decoded
\* into n events carrying that one timestamp (a mouse packet can carry a move,
\* button changes and a wheel delta)
WorkerDecode ==
    /\ kind = "raw"
    /\ workerAlive
    /\ wpending = <<>>
    /\ PassesFilter(target, foreground)
    /\ \E n \in 1..2 :
        /\ nsent + n <= MaxSent
        /\ wpending' = [i \in 1..n |-> [id |-> nsent + i, ts |-> clock, fg |-> foreground]]
        /\ nsent' = nsent + n
    /\ UNCHANGED <<clock, horizon, workerAlive, chan, buffer, dropped_events, last, returned>>
    /\ UNCHANGED mockVars
    /\ UNCHANGED sessionVars
    /\ UNCHANGED <<createVars, aggVars, unitVars>>

\* sender.send(event)
WorkerSend ==
    /\ kind = "raw"
    /\ workerAlive
    /\ wpending # <<>>
    /\ chan' = Append(chan, Head(wpending))
    /\ wpending' = Tail(wpending)
    /\ UNCHANGED <<clock, horizon, nsent, workerAlive, buffer, dropped_events, last, returned>>
    /\ UNCHANGED mockVars
    /\ UNCHANGED sessionVars
    /\ UNCHANGED <<createVars, aggVars, unitVars>>

\* --------------------------------------------- collector API, any windows

\* a caller invokes RawInputCollector::drain_events(start, end)
DrainCall ==
    /\ kind = "raw"
    /\ workerAlive
    /\ last.calls < MaxCalls
    /\ \E start \in 0..horizon, end \in 0..(horizon + 1) :
        LET r == DrainEvents(chan, buffer, dropped_events, start, end)
        IN /\ buffer' = r.buffer
           /\ dropped_events' = r.dropped
           /\ chan' = <<>>
           /\ returned' = returned \o r.out
           /\ last' = [calls |-> last.calls + 1, start |-> start, end |-> end,
                       out |-> r.out, kept |-> r.kept]
    /\ UNCHANGED <<clock, horizon, wpending, nsent, workerAlive>>
    /\ UNCHANGED mockVars
    /\ UNCHANGED sessionVars
    /\ UNCHANGED <<createVars, aggVars, unitVars>>

\* RawInputCollector::take_dropped_events
TakeDropped ==
    /\ kind = "raw"
    /\ dropped_events > 0
    /\ dropped_events' = 0
    /\ UNCHANGED <<clock, horizon, wpending, nsent, workerAlive, chan, buffer, last, returned>>
    /\ UNCHANGED mockVars
    /\ UNCHANGED sessionVars
    /\ UNCHANGED <<createVars, aggVars, unitVars>>

\* a caller invokes MockInputCollector::drain_events(start, end)
MockDrainCall ==
    /\ kind = "mock"
    /\ last.calls < MaxCalls
    /\ \E start \in 0..horizon, end \in 0..(horizon + 1) :
        LET r == MockDrain(stream, mock_index, start, end)
        IN /\ mock_index' = r.index
           /\ returned' = returned \o r.out
           /\ last' = [calls |-> last.calls + 1, start |-> start, end |-> end,
                       out |-> r.out, kept |-> <<>>]
    /\ UNCHANGED <<stream, arrived, kind, winK>>
    /\ UNCHANGED <<clock, horizon, wpending, nsent, workerAlive, chan, buffer, dropped_events>>
    /\ UNCHANGED sessionVars
    /\ UNCHANGED <<createVars, aggVars, unitVars>>

\* tick-ordered event streams of at most MaxStream events over the ticks 0..hi
RECURSIVE OrderedTicks(_, _)
OrderedTicks(n, hi) ==
    IF n = 0 THEN {<<>>}
    ELSE LET shorter == OrderedTicks(n - 1, hi)
             longest == {x \in shorter : Len(x) = n - 1}
         IN shorter \cup
            {Append(p[1], p[2]) :
                p \in {q \in longest \X (0..hi) :
                          q[1] = <<>> \/ q[1][Len(q[1])] <= q[2]}}
Streams(hi) ==
    {[i \in 1..Len(s) |-> [id |-> i, ts |-> s[i]]] : s \in OrderedTicks(MaxStream, hi)}

\* ------------------------------------------- aggregator and compiler: values

\* i32 range of the window sums (dx, dy, wheel are `0i32` accumulators)
I32Max == 2147483647
I32Min == -2147483647 - 1
BIN_COUNT == 6
DX_CLAMP == 1000
WHEEL_CLAMP == 5
MaxBinKeys == 4

\* InputEvent { qpc_ts, kind }, one record shape for the five InputEventKind variants
KeyDown(ts, key) ==
    [qpc_ts |-> ts, kind |-> "KeyDown", key |-> key, button |-> "", is_down |-> TRUE,
     dx |-> 0, dy |-> 0, delta |-> 0]
KeyUp(ts, key) ==
    [qpc_ts |-> ts, kind |-> "KeyUp", key |-> key, button |-> "", is_down |-> FALSE,
     dx |-> 0, dy |-> 0, delta |-> 0]
MouseMove(ts, edx, edy) ==
    [qpc_ts |-> ts, kind |-> "MouseMove", key |-> "", button |-> "", is_down |-> FALSE,
     dx |-> edx, dy |-> edy, delta |-> 0]
MouseWheel(ts, d) ==
    [qpc_ts |-> ts, kind |-> "MouseWheel", key |-> "", button |-> "", is_down |-> FALSE,
     dx |-> 0, dy |-> 0, delta |-> d]
MouseButton(ts, b, down) ==
    [qpc_ts |-> ts, kind |-> "MouseButton", key |-> "", button |-> b, is_down |-> down,
     dx |-> 0, dy |-> 0, delta |-> 0]

\* MouseButtons::default(): no button marked
DefaultButtons ==
    [left |-> FALSE, right |-> FALSE, middle |-> FALSE, x1 |-> FALSE, x2 |-> FALSE]

\* mark_button
MarkButton(buttons, b) ==
    CASE b = "Left" -> [buttons EXCEPT !.left = TRUE]
      [] b = "Right" -> [buttons EXCEPT !.right = TRUE]
      [] b = "Middle" -> [buttons EXCEPT !.middle = TRUE]
      [] b = "X1" -> [buttons EXCEPT !.x1 = TRUE]
      [] b = "X2" -> [buttons EXCEPT !.x2 = TRUE]

\* mouse_button_name
MouseButtonName(b) ==
    CASE b = "Left" -> "MouseLeft"
      [] b = "Right" -> "MouseRight"
      [] b = "Middle" -> "MouseMiddle"
      [] b = "X1" -> "MouseX1"
      [] b = "X2" -> "MouseX2"

\* i32::saturating_add
WrappingAdd(a, b) ==
    IF b > 0 /\ a > I32Max - b THEN (a - I32Max) + (b - I32Max) - 2
    ELSE IF b < 0 /\ a < I32Min - b THEN (a - I32Min) + (b - I32Min)
    ELSE a + b
SaturatingAdd(a, b) ==
    IF b > 0 /\ a > I32Max - b THEN I32Max
    ELSE IF b < 0 /\ a < I32Min - b THEN I32Min
    ELSE a + b

\* clamp(value, limit)
Clamp_LowerOnly(value, limit) == IF value < -limit THEN -limit ELSE value
Clamp(value, limit) ==
    IF value > limit THEN limit
    ELSE IF value < -limit THEN -limit
    ELSE value

\* ------------------------------------------ aggregator and compiler: strings

\* a String is the sequence of its characters; the key names used in the runs
\* (keyboard_key_name, mouse_button_name)
Chars(name) ==
    CASE name = "A" -> <<"A">>
      [] name = "W" -> <<"W">>
      [] name = "Shift" -> <<"S", "h", "i", "f", "t">>
      [] name = "MouseLeft" -> <<"M", "o", "u", "s", "e", "L", "e", "f", "t">>
      [] name = "B" -> <<"B">>
      [] name = "one" -> <<"o", "n", "e">>
      [] name = "zero" -> <<"z", "e", "r", "o">>

\* byte value of a character (UTF-8 of these characters is their ASCII code)
Byte(c) ==
    CASE c = "A" -> 65 [] c = "B" -> 66 [] c = "L" -> 76 [] c = "M" -> 77 [] c = "S" -> 83 [] c = "W" -> 87
      [] c = "e" -> 101 [] c = "f" -> 102 [] c = "h" -> 104 [] c = "i" -> 105
      [] c = "o" -> 111 [] c = "s" -> 115 [] c = "t" -> 116 [] c = "u" -> 117
      [] c = "n" -> 110 [] c = "r" -> 114 [] c = "z" -> 122

\* Ord for String: lexicographic comparison of the bytes, a proper prefix first
RECURSIVE BytesLess(_, _)
BytesLess(a, b) ==
    IF b = <<>> THEN FALSE
    ELSE IF a = <<>> THEN TRUE
    ELSE IF Byte(Head(a)) # Byte(Head(b)) THEN Byte(Head(a)) < Byte(Head(b))
    ELSE BytesLess(Tail(a), Tail(b))
StrLess(a, b) == BytesLess(Chars(a), Chars(b))

\* the sorted Vec of a HashSet under a strict total order given as the set of
\* its pairs: the element that is below all others, then the rest sorted
RECURSIVE Sorted(_, _)
Sorted(S, below) ==
    IF S = {} THEN <<>>
    ELSE LET first == CHOOSE k \in S : \A j \in S \ {k} : <<k, j>> \in below
         IN <<first>> \o Sorted(S \ {first}, below)

\* sorted_vec of the aggregator: Vec::sort() on Strings
SortedVec(S) ==
    Sorted(S, {p \in S \X S : StrLess(p[1], p[2])})

\* key_rank of the compiler and its tables
MOUSE_KEYS == <<"MouseLeft", "MouseRight", "MouseMiddle">>
MOD_KEYS == <<"Shift", "Ctrl", "Alt">>
MOVE_KEYS == <<"W", "A", "S", "D">>
NAV_KEYS == <<"Space", "Esc", "Tab", "Enter">>
NUM_KEYS == <<"one", "two", "three", "four", "five", "six", "seven", "eight", "nine">>
FUNC_KEYS == <<"One", "Two", "Three", "Four", "Five", "Six", "Seven", "Eight", "Nine",
               "Ten", "Eleven", "Twelve">>
InList(list, key) == \E i \in 1..Len(list) : list[i] = key
IndexOf(list, key) == (CHOOSE i \in 1..Len(list) : list[i] = key) - 1
KeyRank(key) ==
    IF InList(MOUSE_KEYS, key) THEN <<0, IndexOf(MOUSE_KEYS, key)>>
    ELSE IF InList(MOD_KEYS, key) THEN <<1, IndexOf(MOD_KEYS, key)>>
    ELSE IF InList(MOVE_KEYS, key) THEN <<2, IndexOf(MOVE_KEYS, key)>>
    ELSE IF InList(NAV_KEYS, key) THEN <<3, IndexOf(NAV_KEYS, key)>>
    ELSE IF InList(NUM_KEYS, key) THEN <<4, IndexOf(NUM_KEYS, key)>>
    ELSE IF InList(FUNC_KEYS, key) THEN <<4, Len(NUM_KEYS) + IndexOf(FUNC_KEYS, key)>>
    ELSE <<5, 0>>

\* the comparator of sort_keys: group, then index within the group, then String order
RankLess(a, b) ==
    LET ra == KeyRank(a)
        rb == KeyRank(b)
    IN \/ ra[1] < rb[1]
       \/ ra[1] = rb[1] /\ ra[2] < rb[2]
       \/ ra = rb /\ StrLess(a, b)

\* sort_keys of the compiler
SortKeys(S) ==
    Sorted(S, {p \in S \X S : RankLess(p[1], p[2])})

\* format!("{}", n) for an i32: decimal digits, '-' in front of a negative
Digit(d) ==
    CASE d = 0 -> "0" [] d = 1 -> "1" [] d = 2 -> "2" [] d = 3 -> "3" [] d = 4 -> "4"
      [] d = 5 -> "5" [] d = 6 -> "6" [] d = 7 -> "7" [] d = 8 -> "8" [] d = 9 -> "9"
RECURSIVE Digits(_)
Digits(n) == IF n < 10 THEN <<Digit(n)>> ELSE Append(Digits(n \div 10), Digit(n % 10))
Display(n) == IF n < 0 THEN <<"-">> \o Digits(0 - n) ELSE Digits(n)

\* bin.join(" ")
RECURSIVE Join(_)
Join(bin) ==
    IF bin = <<>> THEN <<>>
    ELSE IF Len(bin) = 1 THEN Chars(bin[1])
    ELSE Chars(bin[1]) \o <<" ">> \o Join(Tail(bin))

ActionStart == <<"<", "|", "a", "c", "t", "i", "o", "n", "_", "s", "t", "a", "r", "t", "|", ">">>
ActionEnd == <<"<", "|", "a", "c", "t", "i", "o", "n", "_", "e", "n", "d", "|", ">">>

\* the loop of format_action_string over bins.iter().take(BIN_COUNT)
RECURSIVE FormatBins_NoEmptyBin(_, _)
FormatBins_NoEmptyBin(bins, n) ==
    IF n = 0 \/ bins = <<>> THEN <<>>
    ELSE (IF Head(bins) = <<>> THEN <<>> ELSE <<" ", ";", " ">> \o Join(Head(bins)))
         \o FormatBins_NoEmptyBin(Tail(bins), n - 1)
RECURSIVE FormatBins(_, _)
FormatBins(bins, n) ==
    IF n = 0 \/ bins = <<>> THEN <<>>
    ELSE <<" ", ";">>
         \o (IF Head(bins) = <<>> THEN <<>> ELSE <<" ">> \o Join(Head(bins)))
         \o FormatBins(Tail(bins), n - 1)

\* format_action_string
FormatActionString(dx, dy, wheel, bins) ==
    ActionStart \o Display(dx) \o <<" ">> \o Display(dy) \o <<" ">> \o Display(wheel)
        \o FormatBins(bins, BIN_COUNT) \o ActionEnd

\* --------------------------------------------- aggregator: aggregate_window

\* one turn of the event loop of aggregate_window; acc holds the locals dx, dy,
\* wheel, pressed, released, buttons and the caller's state.down_keys
AggEvent_NoRelease(acc, e, window_start, window_end) ==
    IF e.qpc_ts < window_start \/ e.qpc_ts >= window_end THEN acc
    ELSE CASE e.kind = "KeyDown" ->
                [acc EXCEPT !.down_keys = @ \cup {e.key}, !.pressed = @ \cup {e.key}]
           [] e.kind = "KeyUp" ->
                [acc EXCEPT !.released = @ \cup {e.key}]
           [] e.kind = "MouseMove" ->
                [acc EXCEPT !.dx = SaturatingAdd(@, e.dx), !.dy = SaturatingAdd(@, e.dy)]
           [] e.kind = "MouseWheel" ->
                [acc EXCEPT !.wheel = SaturatingAdd(@, e.delta)]
           [] e.kind = "MouseButton" ->
                IF e.is_down THEN [acc EXCEPT !.buttons = MarkButton(@, e.button)] ELSE acc
AggEvent_UpClearsButton(acc, e, window_start, window_end) ==
    IF e.qpc_ts < window_start \/ e.qpc_ts >= window_end THEN acc
    ELSE CASE e.kind = "KeyDown" ->
                [acc EXCEPT !.down_keys = @ \cup {e.key}, !.pressed = @ \cup {e.key}]
           [] e.kind = "KeyUp" ->
                [acc EXCEPT !.down_keys = @ \ {e.key}, !.released = @ \cup {e.key}]
           [] e.kind = "MouseMove" ->
                [acc EXCEPT !.dx = SaturatingAdd(@, e.dx), !.dy = SaturatingAdd(@, e.dy)]
           [] e.kind = "MouseWheel" ->
                [acc EXCEPT !.wheel = SaturatingAdd(@, e.delta)]
           [] e.kind = "MouseButton" ->
                IF e.is_down THEN [acc EXCEPT !.buttons = MarkButton(@, e.button)]
                             ELSE [acc EXCEPT !.buttons = DefaultButtons]
AggEvent(acc, e, window_start, window_end) ==
    IF e.qpc_ts < window_start \/ e.qpc_ts >= window_end THEN acc
    ELSE CASE e.kind = "KeyDown" ->
                [acc EXCEPT !.down_keys = @ \cup {e.key}, !.pressed = @ \cup {e.key}]
           [] e.kind = "KeyUp" ->
                [acc EXCEPT !.down_keys = @ \ {e.key}, !.released = @ \cup {e.key}]
           [] e.kind = "MouseMove" ->
                [acc EXCEPT !.dx = SaturatingAdd(@, e.dx), !.dy = SaturatingAdd(@, e.dy)]
           [] e.kind = "MouseWheel" ->
                [acc EXCEPT !.wheel = SaturatingAdd(@, e.delta)]
           [] e.kind = "MouseButton" ->
                IF e.is_down THEN [acc EXCEPT !.buttons = MarkButton(@, e.button)] ELSE acc

\* for event in events.iter() { ... }
RECURSIVE AggFold(_, _, _, _)
AggFold(acc, events, window_start, window_end) ==
    IF events = <<>> THEN acc
    ELSE AggFold(AggEvent(acc, Head(events), window_start, window_end), Tail(events),
                 window_start, window_end)

\* the ActionSnapshot aggregate_window returns once the loop is done
MakeSnapshot_NoZeroing(acc, window_end, step, is_foreground, cursor) ==
    [step_index |-> step, qpc_ts |-> window_end, is_foreground |-> is_foreground,
     dx |-> acc.dx, dy |-> acc.dy, wheel |-> acc.wheel, buttons |-> acc.buttons,
     cursor |-> cursor,
     down |-> SortedVec(acc.down_keys), pressed |-> SortedVec(acc.pressed),
     released |-> SortedVec(acc.released)]
MakeSnapshot(acc, window_end, step, is_foreground, cursor) ==
    IF ~is_foreground
       THEN [step_index |-> step, qpc_ts |-> window_end, is_foreground |-> is_foreground,
             dx |-> 0, dy |-> 0, wheel |-> 0, buttons |-> DefaultButtons,
             cursor |-> cursor,
             down |-> <<>>, pressed |-> <<>>, released |-> <<>>]
       ELSE [step_index |-> step, qpc_ts |-> window_end, is_foreground |-> is_foreground,
             dx |-> acc.dx, dy |-> acc.dy, wheel |-> acc.wheel, buttons |-> acc.buttons,
             cursor |-> cursor,
             down |-> SortedVec(acc.down_keys), pressed |-> SortedVec(acc.pressed),
             released |-> SortedVec(acc.released)]

\* state.down_keys as aggregate_window leaves it
DownAfter_ResetOnBackground(acc, before, is_foreground) ==
    IF is_foreground THEN acc.down_keys ELSE {}
DownAfter_FreezeOnBackground(acc, before, is_foreground) ==
    IF is_foreground THEN acc.down_keys ELSE before
DownAfter(acc, before, is_foreground) == acc.down_keys

\* aggregate_window: the snapshot it returns and the state it leaves
AggregateWindow(events, window_start, window_end, step, is_foreground, cursor, down) ==
    LET acc == AggFold([dx |-> 0, dy |-> 0, wheel |-> 0, pressed |-> {}, released |-> {},
                        buttons |-> DefaultButtons, down_keys |-> down],
                       events, window_start, window_end)
    IN [down_keys |-> DownAfter(acc, down, is_foreground),
        snapshot |-> MakeSnapshot(acc, window_end, step, is_foreground, cursor)]

\* ------------------------------------------ compiler: compile_action_string

\* ordered.truncate(4)
Truncate_None(list, n) == list
Truncate(list, n) == IF Len(list) > n THEN SubSeq(list, 1, n) ELSE list

\* the leading loop of compile_window: skip the events before window_start
SkipBefore_None(events, event_index, window_start) == event_index
RECURSIVE SkipBefore(_, _, _)
SkipBefore(events, event_index, window_start) ==
    IF event_index <= Len(events) /\ events[event_index].qpc_ts < window_start
       THEN SkipBefore(events, event_index + 1, window_start)
       ELSE event_index

\* the inner loop of one bin: take events while qpc_ts < bin_end; st holds
\* event_index, dx, dy, wheel, key_state.down and this bin's bin_keys
RECURSIVE BinEvents(_, _, _)
BinEvents(st, events, bin_end) ==
    IF st.event_index <= Len(events) /\ events[st.event_index].qpc_ts < bin_end
       THEN LET e == events[st.event_index]
                next == [st EXCEPT !.event_index = @ + 1]
            IN BinEvents(
                 CASE e.kind = "KeyDown" ->
                        [next EXCEPT !.down = @ \cup {e.key}, !.bin_keys = @ \cup {e.key}]
                   [] e.kind = "KeyUp" ->
                        [next EXCEPT !.down = @ \ {e.key}]
                   [] e.kind = "MouseMove" ->
                        [next EXCEPT !.dx = SaturatingAdd(@, e.dx),
                                     !.dy = SaturatingAdd(@, e.dy)]
                   [] e.kind = "MouseWheel" ->
                        [next EXCEPT !.wheel = SaturatingAdd(@, e.delta)]
                   [] e.kind = "MouseButton" ->
                        IF e.is_down
                           THEN [next EXCEPT !.down = @ \cup {MouseButtonName(e.button)},
                                             !.bin_keys = @ \cup {MouseButtonName(e.button)}]
                           ELSE [next EXCEPT !.down = @ \ {MouseButtonName(e.button)}],
                 events, bin_end)
       ELSE st

\* for bin_idx in 0..BIN_COUNT: the bin's end, its keys (those down at its
\* start plus those pressed in it), sorted and truncated
RECURSIVE Bins_Sticky(_, _, _, _, _, _, _)
Bins_Sticky(st, bins, events, bin_idx, bin_start, base, remainder) ==
    IF bin_idx = BIN_COUNT THEN [st |-> st, bins |-> bins]
    ELSE LET bin_end == IF bin_idx = BIN_COUNT - 1
                           THEN bin_start + (base + remainder)
                           ELSE bin_start + base
             after == BinEvents([st EXCEPT !.bin_keys = @ \cup st.down], events, bin_end)
         IN Bins_Sticky(after, Append(bins, Truncate(SortKeys(after.bin_keys), MaxBinKeys)),
                        events, bin_idx + 1, bin_end, base, remainder)
RECURSIVE Bins(_, _, _, _, _, _, _)
Bins(st, bins, events, bin_idx, bin_start, base, remainder) ==
    IF bin_idx = BIN_COUNT THEN [st |-> st, bins |-> bins]
    ELSE LET bin_end == IF bin_idx = BIN_COUNT - 1
                           THEN bin_start + (base + remainder)
                           ELSE bin_start + base
             after == BinEvents([st EXCEPT !.bin_keys = st.down], events, bin_end)
         IN Bins(after, Append(bins, Truncate(SortKeys(after.bin_keys), MaxBinKeys)),
                 events, bin_idx + 1, bin_end, base, remainder)

\* compile_window: (dx, dy, wheel, bins) and the key_state.down it leaves
CompileWindow(events, window_start, window_end, key_down) ==
    LET duration == SatSub(window_end, window_start)
        base == duration \div BIN_COUNT
        remainder == duration - (base * BIN_COUNT)
        r == Bins([event_index |-> SkipBefore(events, 1, window_start),
                   dx |-> 0, dy |-> 0, wheel |-> 0, down |-> key_down, bin_keys |-> {}],
                  <<>>, events, 0, window_start, base, remainder)
    IN [dx |-> Clamp(r.st.dx, DX_CLAMP), dy |-> Clamp(r.st.dy, DX_CLAMP),
        wheel |-> Clamp(r.st.wheel, WHEEL_CLAMP), bins |-> r.bins, down |-> r.st.down]

\* compile_action_string
CompileActionString(events, window_start, window_end, key_down) ==
    LET c == CompileWindow(events, window_start, window_end, key_down)
    IN [dx |-> c.dx, dy |-> c.dy, wheel |-> c.wheel, bins |-> c.bins, down |-> c.down,
        text |-> FormatActionString(c.dx, c.dy, c.wheel, c.bins)]

\* ------------------------------------- aggregator and compiler: driving them

\* the window every call is made with, and the events a run of each universe
\* draws from: "keys" holds and releases two keys before, inside and at the
\* (excluded) end of the window, "order" three keys of different rank groups
\* inside it, "mouse" moves, wheel turns and clicks inside it and at its end
AggWindow == [start |-> 1, end |-> 13]
Before == AggWindow.start - 1
Inside == AggWindow.start + 4
AggKeys == {"A", "W", "Shift"}
Cursors ==
    {[visible |-> TRUE, x_norm |-> 1, y_norm |-> 0],
     [visible |-> FALSE, x_norm |-> 0, y_norm |-> 1]}
KeyEvents(keys, ticks) ==
    {KeyDown(ts, k) : ts \in ticks, k \in keys} \cup {KeyUp(ts, k) : ts \in ticks, k \in keys}
MouseEvents(ticks) ==
    UNION {{MouseMove(ts, I32Max, I32Min), MouseMove(ts, 600, -600),
            MouseWheel(ts, 3), MouseWheel(ts, I32Min),
            MouseButton(ts, "Left", TRUE), MouseButton(ts, "Left", FALSE)} : ts \in ticks}
EventsOf(u) ==
    CASE u = "keys" -> KeyEvents({"A", "W"}, {Before, Inside, AggWindow.end})
      [] u = "order" -> KeyEvents(AggKeys, {Inside})
      [] u = "mouse" -> MouseEvents({Inside, AggWindow.end})
CursorsOf(u) ==
    IF u = "mouse" THEN Cursors ELSE {[visible |-> TRUE, x_norm |-> 1, y_norm |-> 0]}

NoWin == [called |-> FALSE]
NoSnapshot == [returned |-> FALSE]
NoCompiled == [returned |-> FALSE]

\* InputState::apply_event
ApplyEvent_NoRemove(state_down, e) ==
    CASE e.kind = "KeyDown" -> state_down \cup {e.key}
      [] e.kind = "MouseButton" /\ e.is_down -> state_down \cup {MouseButtonName(e.button)}
      [] OTHER -> state_down
ApplyEvent(state_down, e) ==
    CASE e.kind = "KeyDown" -> state_down \cup {e.key}
      [] e.kind = "KeyUp" -> state_down \ {e.key}
      [] e.kind = "MouseButton" ->
           IF e.is_down THEN state_down \cup {MouseButtonName(e.button)}
                        ELSE state_down \ {MouseButtonName(e.button)}
      [] OTHER -> state_down
\* apply_event on each event of a list in turn
RECURSIVE ApplyEvents(_, _)
ApplyEvents(state_down, events) ==
    IF events = <<>> THEN state_down
    ELSE ApplyEvents(ApplyEvent(state_down, Head(events)), Tail(events))
\* the events drain_events(window_start, window_end) hands to the step: those
\* with window_start <= qpc_ts < window_end, in order
EventsInWindow(events, window_start, window_end) ==
    SelectSeq(events, LAMBDA e : e.qpc_ts >= window_start /\ e.qpc_ts < window_end)

\* the key events of a window that fall inside it, in order
InRangeKeyEvents(events, window_start, window_end) ==
    SelectSeq(events, LAMBDA e : /\ e.kind \in {"KeyDown", "KeyUp"}
                                 /\ e.qpc_ts >= window_start
                                 /\ e.qpc_ts < window_end)
\* the kind of the latest event of key k in a list of key events, "none" if there is none
LastKind(keyEvents, k) ==
    LET idx == {i \in 1..Len(keyEvents) : keyEvents[i].key = k}
    IN IF idx = {} THEN "none"
       ELSE keyEvents[CHOOSE i \in idx : \A j \in idx : j <= i].kind

\* an event reaches the window that is aggregated next (tick-ordered, as
\* drain_events returns them); the previous call's results have been consumed
PushEvent ==
    /\ universe # "none"
    /\ call.called => compiled.returned
    /\ Len(pending_events) < MaxEvents
    /\ \E e \in EventsOf(universe) :
         /\ IF pending_events = <<>> THEN TRUE
               ELSE pending_events[Len(pending_events)].qpc_ts <= e.qpc_ts
         /\ pending_events' = Append(pending_events, e)
    /\ call' = NoWin
    /\ snapshot' = NoSnapshot
    /\ compiled' = NoCompiled
    /\ UNCHANGED <<universe, down_keys, key_state, held, bg_held, input_down>>
    /\ UNCHANGED <<collectorVars, mockVars, sessionVars, createVars, unitVars>>

\* a call of aggregate_window on the pending_events events
AggregateCall ==
    /\ universe # "none"
    /\ call.called => compiled.returned
    /\ \E fg \in BOOLEAN, cursor \in CursorsOf(universe) :
         LET r == AggregateWindow(pending_events, AggWindow.start, AggWindow.end, 0, fg, cursor,
                                  down_keys)
             keyEvents == InRangeKeyEvents(pending_events, AggWindow.start, AggWindow.end)
             downs == {k \in AggKeys : LastKind(keyEvents, k) = "KeyDown"}
             ups == {k \in AggKeys : LastKind(keyEvents, k) = "KeyUp"}
         IN /\ down_keys' = r.down_keys
            /\ snapshot' = [returned |-> TRUE, value |-> r.snapshot]
            /\ call' = [called |-> TRUE, events |-> pending_events, start |-> AggWindow.start,
                       end |-> AggWindow.end, is_foreground |-> fg, cursor |-> cursor,
                       down_before |-> down_keys, held_before |-> held]
            /\ held' = (held \ ups) \cup downs
            /\ bg_held' = IF fg THEN bg_held \ (ups \cup downs)
                                ELSE (bg_held \ ups) \cup downs
            /\ input_down' = ApplyEvents(input_down,
                                         EventsInWindow(pending_events, AggWindow.start,
                                                        AggWindow.end))
    /\ pending_events' = <<>>
    /\ compiled' = NoCompiled
    /\ UNCHANGED <<universe, key_state>>
    /\ UNCHANGED <<collectorVars, mockVars, sessionVars, createVars, unitVars>>

\* a call of compile_action_string on the same events and window
CompileCall ==
    /\ call.called
    /\ ~compiled.returned
    /\ LET r == CompileActionString(call.events, call.start, call.end, key_state)
       IN /\ key_state' = r.down
          /\ compiled' = [returned |-> TRUE, dx |-> r.dx, dy |-> r.dy, wheel |-> r.wheel,
                          bins |-> r.bins, text |-> r.text]
    /\ UNCHANGED <<universe, pending_events, down_keys, held, bg_held, input_down, call, snapshot>>
    /\ UNCHANGED <<collectorVars, mockVars, sessionVars, createVars, unitVars>>

\* the collector is taken as constructed, with no target window registered
\* (RawInputCollector::new), in the specifications that do not follow its
\* worker's life
InitWorkerIdle ==
    /\ owner = "none"
    /\ worker = "none"
    /\ init_done = {}
    /\ ready = "empty"
    /\ target = "none"
    /\ foreground = TRUE
    /\ filtered = 0

\* no frame is written, no thought formatted, no cursor sampled (the other
\* specifications)
InitUnitCoreIdle ==
    /\ frame_bytes = 0
    /\ stdin = <<>>
    /\ write_frame = [called |-> FALSE]
    /\ content = <<>>
    /\ thought_line = [made |-> FALSE]
    /\ thoughts_log = <<>>
    /\ desktop = [sampled |-> FALSE]
    /\ sampled = [returned |-> FALSE]

\* no GUI session thread shares a thought cell (the other specifications)
InitLockIdle ==
    /\ thought = ""
    /\ thought_lock = "free"
    /\ gui_pc = "idle"
    /\ gui_text = ""
    /\ loop_pc = "idle"
    /\ provided = ""
    /\ lock_steps = 0
    /\ set_calls = 0

\* session names as the pieces format! puts together: "a", "a.tmp" and "b"
SessionNames == {<<"a">>, <<"a", ".tmp">>, <<"b">>}

\* SessionLayout::new: root_dir = sessions_dir.join(name),
\* temp_dir = sessions_dir.join(format!("{}.tmp", name))
RootPath(name) == name
TempPath(name) == Append(name, ".tmp")
SessionPaths == {RootPath(n) : n \in SessionNames} \cup {TempPath(n) : n \in SessionNames}

NoDir == [dir |-> "absent", files |-> {}]

\* one run, one session name, and nothing left on disk by earlier runs
InitRunIdle ==
    /\ session_name = <<"a">>
    /\ sessions_dir = [path \in SessionPaths |-> NoDir]
    /\ earlier = <<>>

\* no JsonlWriter is followed on its own (the other specifications)
InitUnitRestIdle == InitUnitCoreIdle /\ jsonl = [made |-> FALSE] /\ InitRunIdle

InitUnitIdle == InitUnitRestIdle /\ InitWorkerIdle /\ InitLockIdle

\* no aggregator is driven (the other specifications)
InitAggIdle ==
    /\ universe = "none"
    /\ pending_events = <<>>
    /\ down_keys = {}
    /\ key_state = {}
    /\ held = {}
    /\ bg_held = {}
    /\ input_down = {}
    /\ call = NoWin
    /\ snapshot = NoSnapshot
    /\ compiled = NoCompiled

InitCollector ==
    /\ clock = 1
    /\ wpending = <<>>
    /\ nsent = 0
    /\ chan = <<>>
    /\ buffer = <<>>
    /\ dropped_events = 0
    /\ last = NoLast
    /\ returned = <<>>

\* no session is running
InitSessionIdle ==
    /\ pc = "idle"
    /\ stop_requested = FALSE
    /\ loopError = "none"
    /\ okCalls = 0
    /\ step_index = 0
    /\ next_capture_qpc = 0
    /\ content_size = 1
    /\ skipped = 0
    /\ frame = [step_index |-> 0, qpc_ts |-> 0]
    /\ tmpDir = FALSE
    /\ rootDir = "absent"
    /\ tmpFiles = {}
    /\ rootFiles = {}
    /\ actionsLog = <<>>
    /\ compiledCount = 0
    /\ frameCount = 0
    /\ thoughtCount = 0
    /\ finalizeResult = "none"
    /\ finalize_calls = <<>>
    /\ createResult = "none"
    /\ ffmpeg = "none"

InitMockIdle ==
    /\ stream = <<>>
    /\ arrived = 0
    /\ mock_index = 0
    /\ kind = "raw"
    /\ winK = 0

vars == <<collectorVars, mockVars, sessionVars, createVars, aggVars, unitVars>>

\* the collector API driven with arbitrary windows: a RawInputCollector fed by
\* the worker, or a MockInputCollector built over a tick-ordered event list
InitDrain ==
    /\ InitCollector
    /\ InitAggIdle
    /\ InitUnitIdle
    /\ horizon = MaxDrainTick
    /\ workerAlive = TRUE
    /\ InitSessionIdle
    /\ arrived = 0
    /\ mock_index = 0
    /\ winK = 0
    /\ \/ kind = "raw" /\ stream = <<>>
       \/ kind = "mock" /\ stream \in Streams(MaxDrainTick)
NextDrain ==
    \/ Tick
    \/ WorkerDecode
    \/ WorkerSend
    \/ DrainCall
    \/ TakeDropped
    \/ MockDrainCall
SpecDrain == InitDrain /\ [][NextDrain]_vars

\* ------------------------------------------- contiguous windows (dry run)

\* number of events of s whose tick lies in window k, [k*Delta, (k+1)*Delta)
InWindow(s, k) ==
    Cardinality({i \in 1..Len(s) : k * Delta <= s[i].ts /\ s[i].ts < (k + 1) * Delta})

\* the next recorded event reaches the channel; the deque cap is not exceeded
Arrive ==
    /\ kind = "raw"
    /\ arrived < Len(stream)
    /\ Len(buffer) + Len(chan) < max_events
    /\ chan' = Append(chan, stream[arrived + 1])
    /\ arrived' = arrived + 1
    /\ UNCHANGED <<clock, horizon, wpending, nsent, workerAlive, buffer, dropped_events,
                   last, returned, stream, mock_index, kind, winK>>
    /\ UNCHANGED sessionVars
    /\ UNCHANGED <<createVars, aggVars, unitVars>>

\* drain_events(k*Delta, (k+1)*Delta) on the RawInputCollector, called once
\* every event stamped before the end of window k is on the channel
WinDrainRaw ==
    /\ kind = "raw"
    /\ winK < NumWindows
    /\ \A i \in (arrived + 1)..Len(stream) : stream[i].ts >= (winK + 1) * Delta
    /\ LET r == DrainEvents(chan, buffer, dropped_events, winK * Delta, (winK + 1) * Delta)
       IN /\ buffer' = r.buffer
          /\ dropped_events' = r.dropped
          /\ chan' = <<>>
          /\ returned' = returned \o r.out
          /\ last' = [calls |-> last.calls + 1, start |-> winK * Delta,
                      end |-> (winK + 1) * Delta, out |-> r.out, kept |-> r.kept]
    /\ winK' = winK + 1
    /\ UNCHANGED <<clock, horizon, wpending, nsent, workerAlive, stream, arrived, mock_index, kind>>
    /\ UNCHANGED sessionVars
    /\ UNCHANGED <<createVars, aggVars, unitVars>>

\* the dry-run loop of run(): step k windows the loaded events with
\* [k*STEP_MS, (k+1)*STEP_MS), exactly as MockInputCollector::drain_events does
WinDrainMock ==
    /\ kind = "mock"
    /\ winK < NumWindows
    /\ LET r == MockDrain(stream, mock_index, winK * Delta, (winK + 1) * Delta)
       IN /\ mock_index' = r.index
          /\ returned' = returned \o r.out
          /\ last' = [calls |-> last.calls + 1, start |-> winK * Delta,
                      end |-> (winK + 1) * Delta, out |-> r.out, kept |-> <<>>]
    /\ winK' = winK + 1
    /\ UNCHANGED <<clock, horizon, wpending, nsent, workerAlive, chan, buffer, dropped_events,
                   stream, arrived, kind>>
    /\ UNCHANGED sessionVars
    /\ UNCHANGED <<createVars, aggVars, unitVars>>

InitWin ==
    /\ InitCollector
    /\ InitAggIdle
    /\ InitUnitIdle
    /\ horizon = MaxTick
    /\ workerAlive = TRUE
    /\ InitSessionIdle
    /\ arrived = 0
    /\ mock_index = 0
    /\ winK = 0
    /\ kind \in {"raw", "mock"}
    /\ stream \in Streams(NumWindows * Delta - 1)
    /\ \A k \in 0..(NumWindows - 1) : InWindow(stream, k) <= max_events
NextWin == Arrive \/ WinDrainRaw \/ WinDrainMock
SpecWin == InitWin /\ [][NextWin]_vars

\* ------------------------------------ the aggregator and the compiler alone

\* windows of key events, or of mouse events, are built up and handed to
\* aggregate_window and compile_action_string, from empty key states
InitAgg ==
    /\ InitCollector
    /\ horizon = MaxTick
    /\ workerAlive = FALSE
    /\ InitSessionIdle
    /\ InitMockIdle
    /\ InitUnitIdle
    /\ universe \in {"keys", "order", "mouse"}
    /\ pending_events = <<>>
    /\ down_keys = {}
    /\ key_state = {}
    /\ held = {}
    /\ bg_held = {}
    /\ input_down = {}
    /\ call = NoWin
    /\ snapshot = NoSnapshot
    /\ compiled = NoCompiled
NextAgg == PushEvent \/ AggregateCall \/ CompileCall
SpecAgg == InitAgg /\ [][NextAgg]_vars

\* compile_action_string driven on its own: windows of twelve and of thirteen
\* ticks (six bins of two ticks, the last one of three in the longer window),
\* fed with a key that goes down and up before the window, at the start of
\* its second bin, in its last bin and at tick 13, and a mouse button that
\* does so in the second and last bin; or ("rank") with key-downs of five
\* inputs of different rank groups, so that more than four are held at once;
\* or ("part") windows of three, twelve and thirteen ticks fed with mouse moves
\* and the down and up of one key before, at and after the window's two ends
BinWindows == {[start |-> 1, end |-> 13], [start |-> 1, end |-> 14]}
BinTicks == {0, 3, 12, 13}
ButtonTicks == {3, 12}
RankKeys == {"W", "zero", "one", "B"}
PartWindows == {[start |-> 1, end |-> 4], [start |-> 2, end |-> 14]} \cup BinWindows
PartTicks == {0, 1, 3, 4, 13, 14}
BinUniverses == {"bins", "rank", "part"}
BinEventsOf(u) ==
    CASE u = "bins" ->
           KeyEvents({"W"}, BinTicks)
             \cup {MouseButton(ts, "Left", d) : ts \in ButtonTicks, d \in BOOLEAN}
      [] u = "rank" ->
           {KeyDown(2, k) : k \in RankKeys} \cup {MouseButton(2, "Left", TRUE)}
      [] u = "part" ->
           KeyEvents({"W"}, PartTicks) \cup {MouseMove(ts, 1, -1) : ts \in PartTicks}
BinWindowsOf(u) ==
    CASE u = "bins" -> BinWindows
      [] u = "rank" -> {[start |-> 1, end |-> 13]}
      [] u = "part" -> PartWindows

\* an event reaches the window that is compiled next (tick-ordered)
FeedEvent ==
    /\ universe \in BinUniverses
    /\ Len(pending_events) < MaxEvents
    /\ \E e \in BinEventsOf(universe) :
         /\ IF pending_events = <<>> THEN TRUE
               ELSE pending_events[Len(pending_events)].qpc_ts <= e.qpc_ts
         /\ pending_events' = Append(pending_events, e)
    /\ call' = NoWin
    /\ compiled' = NoCompiled
    /\ UNCHANGED <<universe, down_keys, key_state, held, bg_held, input_down, snapshot>>
    /\ UNCHANGED <<collectorVars, mockVars, sessionVars, createVars, unitVars>>

\* a call of compile_action_string on the pending events
CompileOnly ==
    /\ universe \in BinUniverses
    /\ \E w \in BinWindowsOf(universe) :
         LET r == CompileActionString(pending_events, w.start, w.end, key_state)
         IN /\ key_state' = r.down
            /\ call' = [called |-> TRUE, events |-> pending_events, start |-> w.start,
                        end |-> w.end, key_before |-> key_state]
            /\ compiled' = [returned |-> TRUE, dx |-> r.dx, dy |-> r.dy, wheel |-> r.wheel,
                            bins |-> r.bins, text |-> r.text]
    /\ pending_events' = <<>>
    /\ UNCHANGED <<universe, down_keys, held, bg_held, input_down, snapshot>>
    /\ UNCHANGED <<collectorVars, mockVars, sessionVars, createVars, unitVars>>

InitBins ==
    /\ InitCollector
    /\ horizon = MaxTick
    /\ workerAlive = FALSE
    /\ InitSessionIdle
    /\ InitMockIdle
    /\ InitUnitIdle
    /\ universe \in BinUniverses
    /\ pending_events = <<>>
    /\ down_keys = {}
    /\ key_state = {}
    /\ held = {}
    /\ bg_held = {}
    /\ input_down = {}
    /\ call = NoWin
    /\ snapshot = NoSnapshot
    /\ compiled = NoCompiled
NextBins == FeedEvent \/ CompileOnly
SpecBins == InitBins /\ [][NextBins]_vars

\* ---------------------------------------------------- session: start-up

LogFiles == {"actions.jsonl", "compiled_actions.jsonl", "thoughts.jsonl", "auto_events.jsonl"}
JsonFiles == {"options.json", "meta.json"}
ExpectedFiles == LogFiles \cup JsonFiles \cup {"video.mp4"}

\* SessionWriter::create (through SessionPipeline::create): refuse when either
\* directory exists, else make <name>.tmp/, create the four logs, spawn ffmpeg
\* the existence test SessionWriter::create makes before it touches the disk
Collides_TempOnly(temp_exists, root) == temp_exists
Collides_Never(temp_exists, root) == FALSE
Collides(temp_exists, root) == temp_exists \/ root # "absent"

Create ==
    /\ pc = "start"
    /\ \/ /\ Collides(tmpDir, rootDir)
          /\ createResult' = "AlreadyExists"
          /\ pc' = "create_failed"
          /\ UNCHANGED <<tmpDir, tmpFiles, ffmpeg>>
       \/ /\ ~Collides(tmpDir, rootDir)
          /\ \E made \in SUBSET LogFiles, outcome \in {"ok", "mkdir_err", "file_err", "spawn_err"} :
               /\ outcome = "ok" => made = LogFiles
               /\ outcome = "mkdir_err" => made = {}
               /\ outcome = "file_err" => made # LogFiles
               /\ outcome = "spawn_err" => made = LogFiles
               /\ tmpDir' = (tmpDir \/ outcome # "mkdir_err")
               /\ tmpFiles' = tmpFiles \cup made
               /\ ffmpeg' = IF outcome = "ok" THEN "running" ELSE "none"
               /\ createResult' = IF outcome = "ok" THEN "ok" ELSE "io"
               /\ pc' = IF outcome = "ok" THEN "created" ELSE "create_failed"
    /\ UNCHANGED <<stop_requested, loopError, okCalls, rootDir, rootFiles, actionsLog,
                   compiledCount, frameCount, thoughtCount, finalizeResult,
                   finalize_calls>>
    /\ UNCHANGED <<collectorVars, mockVars, frameVars>>
    /\ UNCHANGED <<aggVars, unitVars>>

\* SessionPipeline::write_options_meta: options.json, then meta.json
WriteOptionsMeta ==
    /\ pc = "created"
    /\ \E written \in {{}, {"options.json"}, JsonFiles} :
         /\ tmpFiles' = tmpFiles \cup written
         /\ pc' = IF written = JsonFiles THEN "open" ELSE "setup_failed"
    /\ UNCHANGED <<stop_requested, loopError, okCalls, tmpDir, rootDir, rootFiles,
                   actionsLog, compiledCount, frameCount, thoughtCount, finalizeResult,
                   finalize_calls>>
    /\ UNCHANGED <<collectorVars, mockVars, frameVars>>
    /\ UNCHANGED <<createVars, aggVars, unitVars>>

\* WgcCapture::new and RawInputCollector::new: the worker is pumping once the
\* collector constructor has returned Ok
OpenSources ==
    /\ pc = "open"
    /\ \E ok \in BOOLEAN :
         /\ workerAlive' = ok
         /\ pc' = IF ok THEN "enter" ELSE "setup_failed"
    /\ UNCHANGED <<clock, horizon, wpending, nsent, chan, buffer, dropped_events, last, returned>>
    /\ UNCHANGED <<stop_requested, loopError, okCalls>>
    /\ UNCHANGED <<mockVars, frameVars, writerVars>>
    /\ UNCHANGED <<createVars, aggVars, unitVars>>

\* the worker's message loop ends (WM_QUIT, or its window is destroyed) and
\* the channel's Sender is dropped
WorkerExit ==
    /\ pc \in {"enter", "top", "next_frame", "drain", "process"}
    /\ workerAlive
    /\ wpending = <<>>
    /\ workerAlive' = FALSE
    /\ UNCHANGED <<clock, horizon, wpending, nsent, chan, buffer, dropped_events, last, returned>>
    /\ UNCHANGED <<mockVars, sessionVars>>
    /\ UNCHANGED <<createVars, aggVars, unitVars>>

\* the external caller flips stop_requested
RequestStop ==
    /\ pc \in {"enter", "top", "next_frame", "drain", "process"}
    /\ ~stop_requested
    /\ stop_requested' = TRUE
    /\ UNCHANGED <<pc, loopError, okCalls>>
    /\ UNCHANGED <<collectorVars, mockVars, frameVars, writerVars>>
    /\ UNCHANGED <<createVars, aggVars, unitVars>>

\* something other than this session creates <name>/
ExternalCreateRoot ==
    /\ pc \in {"enter", "top", "next_frame", "drain", "process", "finalize"}
    /\ rootDir = "absent"
    /\ rootDir' = "foreign"
    /\ UNCHANGED <<tmpDir, tmpFiles, rootFiles, actionsLog, compiledCount, frameCount,
                   thoughtCount, finalizeResult,
                   finalize_calls>>
    /\ UNCHANGED <<collectorVars, mockVars, loopVars, frameVars>>
    /\ UNCHANGED <<createVars, aggVars, unitVars>>

\* ------------------------------------------------- session: the step loop

\* entry of the loop function: step_ticks = qpc_step_ticks(step_ms)?, whose
\* error is returned before the first step
EnterLoop ==
    /\ pc = "enter"
    /\ \E ok \in BOOLEAN :
         /\ pc' = IF ok THEN "top" ELSE "failed"
         /\ loopError' = IF ok THEN loopError ELSE "step_ticks"
    /\ UNCHANGED <<stop_requested, okCalls>>
    /\ UNCHANGED <<collectorVars, mockVars, frameVars, writerVars>>
    /\ UNCHANGED <<createVars, aggVars, unitVars>>

\* top of the loop: should_stop() breaks out, else next_frame() is called
LoopTop_IgnoreStop ==
    /\ pc = "top"
    /\ pc' = "next_frame"
    /\ UNCHANGED <<stop_requested, loopError, okCalls>>
    /\ UNCHANGED <<collectorVars, mockVars, frameVars, writerVars>>
    /\ UNCHANGED <<createVars, aggVars, unitVars>>
LoopTop_StopNeedsStep ==
    /\ pc = "top"
    /\ pc' = IF stop_requested /\ okCalls >= 1 THEN "finalize" ELSE "next_frame"
    /\ UNCHANGED <<stop_requested, loopError, okCalls>>
    /\ UNCHANGED <<collectorVars, mockVars, frameVars, writerVars>>
    /\ UNCHANGED <<createVars, aggVars, unitVars>>
LoopTop ==
    /\ pc = "top"
    /\ pc' = IF stop_requested THEN "finalize" ELSE "next_frame"
    /\ UNCHANGED <<stop_requested, loopError, okCalls>>
    /\ UNCHANGED <<collectorVars, mockVars, frameVars, writerVars>>
    /\ UNCHANGED <<createVars, aggVars, unitVars>>

\* the rate gate's catch-up: advance the schedule in step increments until it
\* is less than one step behind now, then one step more
CatchUp_OneStep(next, now) == next + CaptureStepTicks
RECURSIVE CatchUp(_, _)
CatchUp(next, now) ==
    IF SatSub(now, next) >= CaptureStepTicks
       THEN CatchUp(next + CaptureStepTicks, now)
       ELSE next + CaptureStepTicks

\* next_capture_qpc as the gate sees it: 0 means not yet scheduled
Scheduled(next, now) == IF next = 0 THEN now ELSE next

\* next_frame, one turn of its loop: TryGetNextFrame has no frame
FrameMiss ==
    /\ pc = "next_frame"
    /\ skipped < MaxSkips
    /\ skipped' = skipped + 1
    /\ UNCHANGED <<step_index, next_capture_qpc, content_size, frame>>
    /\ UNCHANGED <<collectorVars, mockVars, loopVars, writerVars>>
    /\ UNCHANGED <<createVars, aggVars, unitVars>>

\* next_frame, one turn of its loop: a frame arrived (possibly of a new content
\* size, then the pool is recreated) before next_capture_qpc and is skipped
FrameGated ==
    /\ pc = "next_frame"
    /\ skipped < MaxSkips
    /\ \E size \in 1..2 :
         /\ content_size' = size
         /\ next_capture_qpc' = Scheduled(next_capture_qpc, clock)
         /\ clock < next_capture_qpc'
    /\ skipped' = skipped + 1
    /\ UNCHANGED <<step_index, frame>>
    /\ UNCHANGED <<collectorVars, mockVars, loopVars, writerVars>>
    /\ UNCHANGED <<createVars, aggVars, unitVars>>

\* the step index the frame source stamps on the frame after index s
NextStepIndex_Gap(s) == s + 1 + skipped
NextStepIndex(s) == s + 1

\* next_frame, one turn of its loop: a frame arrived on or after
\* next_capture_qpc and is emitted as FrameRecord{step_index, qpc_ts: now}
FrameEmit ==
    /\ pc = "next_frame"
    /\ step_index < MaxSteps
    /\ \E size \in 1..2 :
         /\ content_size' = size
         /\ clock >= Scheduled(next_capture_qpc, clock)
         /\ next_capture_qpc' = CatchUp(Scheduled(next_capture_qpc, clock), clock)
    /\ frame' = [step_index |-> step_index, qpc_ts |-> clock]
    /\ step_index' = NextStepIndex(step_index)
    /\ pc' = "drain"
    /\ UNCHANGED skipped
    /\ UNCHANGED <<stop_requested, loopError, okCalls>>
    /\ UNCHANGED <<collectorVars, mockVars, writerVars>>
    /\ UNCHANGED <<createVars, aggVars, unitVars>>

\* next_frame fails with an error other than UnexpectedEof (ContentSize,
\* Recreate, texture copy or map): the loop returns it
FrameFatal_Break ==
    /\ pc = "next_frame"
    /\ pc' = "finalize"
    /\ loopError' = "frame"
    /\ UNCHANGED <<stop_requested, okCalls>>
    /\ UNCHANGED <<collectorVars, mockVars, frameVars, writerVars>>
    /\ UNCHANGED <<createVars, aggVars, unitVars>>
FrameFatal ==
    /\ pc = "next_frame"
    /\ pc' = "failed"
    /\ loopError' = "frame"
    /\ UNCHANGED <<stop_requested, okCalls>>
    /\ UNCHANGED <<collectorVars, mockVars, frameVars, writerVars>>
    /\ UNCHANGED <<createVars, aggVars, unitVars>>

\* the frame channel is closed: next_frame returns UnexpectedEof, the loop breaks
FrameClosed ==
    /\ pc = "next_frame"
    /\ pc' = "finalize"
    /\ UNCHANGED <<stop_requested, loopError, okCalls>>
    /\ UNCHANGED <<collectorVars, mockVars, frameVars, writerVars>>
    /\ UNCHANGED <<createVars, aggVars, unitVars>>

\* window_end = frame.qpc_ts, window_start = window_end.saturating_sub(step_ticks),
\* events = input.drain_events(window_start, window_end)?
DrainStep ==
    /\ pc = "drain"
    /\ \/ /\ workerAlive
          /\ LET r == DrainEvents(chan, buffer, dropped_events,
                                  SatSub(frame.qpc_ts, StepTicks), frame.qpc_ts)
             IN /\ buffer' = r.buffer
                /\ dropped_events' = r.dropped
                /\ returned' = returned \o r.out
                /\ last' = [calls |-> last.calls + 1,
                            start |-> SatSub(frame.qpc_ts, StepTicks),
                            end |-> frame.qpc_ts, out |-> r.out, kept |-> r.kept]
          /\ pc' = "process"
          /\ UNCHANGED loopError
       \/ /\ ~workerAlive        \* drain_into: pending events, then Disconnected
          /\ buffer' = buffer \o chan
          /\ pc' = "failed"
          /\ loopError' = "input"
          /\ UNCHANGED <<dropped_events, returned, last>>
    /\ chan' = <<>>
    /\ UNCHANGED <<clock, horizon, wpending, nsent, workerAlive>>
    /\ UNCHANGED <<stop_requested, okCalls>>
    /\ UNCHANGED <<mockVars, frameVars, writerVars>>
    /\ UNCHANGED <<createVars, aggVars, unitVars>>

\* frame_bytes as FfmpegWriter::spawn computes it (the products stay far
\* below usize::MAX here, so saturating_mul is the plain product)
FrameBytes(width, height) == (width * height) * 4
\* the buffer handed to the n-th call: len bytes, byte i of frame n
FrameBuffer(n, len) == [i \in 1..len |-> <<n, i>>]
\* self.stdin.write_all(frame): all of it, or an error after `sent` bytes
WriteAll(pipe, buf, pipe_ok, sent) ==
    IF pipe_ok THEN [result |-> "ok", pipe |-> pipe \o buf]
    ELSE [result |-> "io", pipe |-> pipe \o SubSeq(buf, 1, sent)]
\* FfmpegWriter::write_frame (SessionWriter::write_frame hands the call on)
WriteFrame_NoLengthCheck(pipe, bytes, buf, pipe_ok, sent) ==
    WriteAll(pipe, buf, pipe_ok, sent)
WriteFrame(pipe, bytes, buf, pipe_ok, sent) ==
    IF Len(buf) # bytes THEN [result |-> "InvalidInput", pipe |-> pipe]
    ELSE WriteAll(pipe, buf, pipe_ok, sent)

\* what process_window's write_frame call leaves on the encoder's stdin when
\* the step's first failing sink is `failed`: the frame is not reached when a
\* log before it fails, is written whole when it succeeds, and on its own
\* failure is refused (wrong length) or breaks off after `sent` bytes
FrameSink_BeforeLogs(pipe, bytes, n, failed, sent) ==
    WriteFrame(pipe, bytes, FrameBuffer(n, bytes), TRUE, bytes).pipe

FrameSink(pipe, bytes, n, failed, sent) ==
    IF failed \in {"actions", "compiled"} THEN pipe
    ELSE IF failed = "frame"
         THEN WriteFrame(pipe, bytes, FrameBuffer(n, bytes), FALSE, sent).pipe
         ELSE WriteFrame(pipe, bytes, FrameBuffer(n, bytes), TRUE, bytes).pipe

\* SessionPipeline::process_window: aggregate, then write_window (actions line,
\* compiled line), write_frame, write_thought, stopping at the first failure.
\* `failed` names the sink whose write returned Err ("none": all Ok); a log
\* sink whose failure is the flush after the line has still taken the line.
ProcessWindow_SkipThought ==
    /\ pc = "process"
    /\ actionsLog' = Append(actionsLog, frame.step_index)
    /\ compiledCount' = compiledCount + 1
    /\ frameCount' = frameCount + 1
    /\ thoughtCount' = IF last.out = <<>> THEN thoughtCount ELSE thoughtCount + 1
    /\ okCalls' = okCalls + 1
    /\ pc' = "top"
    /\ UNCHANGED <<stop_requested, loopError>>
    /\ UNCHANGED <<tmpDir, rootDir, tmpFiles, rootFiles, finalizeResult, finalize_calls>>
    /\ UNCHANGED <<collectorVars, mockVars, frameVars>>
    /\ UNCHANGED <<createVars, aggVars, unitVars>>
ProcessWindow ==
    /\ pc = "process"
    /\ \E failed \in {"none", "actions", "compiled", "frame", "thought"}, took \in BOOLEAN :
         /\ failed \in {"none", "frame"} => ~took
         /\ actionsLog' = IF failed = "actions" /\ ~took
                             THEN actionsLog
                             ELSE Append(actionsLog, frame.step_index)
         /\ compiledCount' = IF failed = "actions" \/ (failed = "compiled" /\ ~took)
                                THEN compiledCount ELSE compiledCount + 1
         /\ frameCount' = IF failed \in {"none", "thought"}
                             THEN frameCount + 1 ELSE frameCount
         /\ thoughtCount' = IF failed = "none" \/ (failed = "thought" /\ took)
                               THEN thoughtCount + 1 ELSE thoughtCount
         /\ okCalls' = IF failed = "none" THEN okCalls + 1 ELSE okCalls
         /\ pc' = IF failed = "none" THEN "top" ELSE "failed"
         /\ loopError' = IF failed = "none" THEN loopError ELSE "write"
         /\ \E sent \in 0..Max(frame_bytes - 1, 0) :
              stdin' = FrameSink(stdin, frame_bytes, frameCount + 1, failed, sent)
    /\ UNCHANGED stop_requested
    /\ UNCHANGED <<tmpDir, rootDir, tmpFiles, rootFiles, finalizeResult, finalize_calls>>
    /\ UNCHANGED <<collectorVars, mockVars, frameVars>>
    /\ UNCHANGED <<frame_bytes, write_frame, content, thought_line, thoughts_log, desktop,
                   sampled>>
    /\ UNCHANGED <<createVars, aggVars, workerVars, lockVars, jsonl, runVars>>

\* --------------------------------------------------- session: finalize

\* finalize reaches fs::rename only after the four flushes and ffmpeg.finish()
\* returned Ok and root_dir.exists() was false
ReachesRename_BeforeEncoder(flushOk, encoderOk, root) == flushOk /\ root = "absent"
ReachesRename_IgnoreRoot(flushOk, encoderOk, root) == flushOk /\ encoderOk
ReachesRename(flushOk, encoderOk, root) == flushOk /\ encoderOk /\ root = "absent"

\* the calls of finalize in program order, each ? returning at the first
\* failure: the four log flushes, ffmpeg.finish() (flush and drop stdin, wait,
\* status.success()), root_dir.exists(), fs::rename
FinalizeCalls(flushOk, encoderOk, root, renameOk) ==
    <<[call |-> "flush", result |-> IF flushOk THEN "ok" ELSE "err"]>>
    \o (IF flushOk
           THEN <<[call |-> "finish", result |-> IF encoderOk THEN "ok" ELSE "err"]>>
           ELSE <<>>)
    \o (IF flushOk /\ encoderOk
           THEN <<[call |-> "exists", result |-> IF root = "absent" THEN "absent" ELSE "present"]>>
           ELSE <<>>)
    \o (IF ReachesRename(flushOk, encoderOk, root)
           THEN <<[call |-> "rename", result |-> IF renameOk THEN "ok" ELSE "err"]>>
           ELSE <<>>)

\* SessionWriter::finalize (through SessionPipeline::finalize)
Finalize ==
    /\ pc = "finalize"
    /\ \E flushOk \in BOOLEAN, encoderOk \in BOOLEAN, renameOk \in BOOLEAN :
         LET staged == IF flushOk /\ encoderOk
                          THEN tmpFiles \cup {"video.mp4"} ELSE tmpFiles
             renamed == ReachesRename(flushOk, encoderOk, rootDir) /\ renameOk
         IN /\ ~flushOk => (encoderOk /\ renameOk)
            /\ ~encoderOk => renameOk
            /\ tmpDir' = IF renamed THEN FALSE ELSE tmpDir
            /\ rootDir' = IF renamed THEN "session" ELSE rootDir
            /\ rootFiles' = IF renamed THEN staged ELSE rootFiles
            /\ tmpFiles' = IF renamed THEN {} ELSE staged
            /\ finalizeResult' =
                 IF flushOk /\ encoderOk /\ rootDir = "absent" /\ renameOk
                    THEN "ok" ELSE "err"
            /\ ffmpeg' = IF flushOk THEN "exited" ELSE ffmpeg
            /\ finalize_calls' = FinalizeCalls(flushOk, encoderOk, rootDir, renameOk)
    /\ pc' = "done"
    /\ UNCHANGED <<stop_requested, loopError, okCalls>>
    /\ UNCHANGED <<actionsLog, compiledCount, frameCount, thoughtCount, createResult>>
    /\ UNCHANGED <<collectorVars, mockVars, frameVars>>
    /\ UNCHANGED <<aggVars, unitVars>>

\* a real-time session: create, write options/meta, open the sources, run the
\* step loop against the worker and the clock, finalize
InitSession(ticks) ==
    /\ InitCollector
    /\ InitAggIdle
    /\ InitUnitIdle
    /\ createResult = "none"
    /\ ffmpeg = "none"
    /\ horizon = ticks
    /\ workerAlive = FALSE
    /\ InitMockIdle
    /\ pc = "start"
    /\ stop_requested = FALSE
    /\ loopError = "none"
    /\ okCalls = 0
    /\ step_index = 0
    /\ next_capture_qpc = 0
    /\ content_size = 1
    /\ skipped = 0
    /\ frame = [step_index |-> 0, qpc_ts |-> 0]
    /\ tmpDir \in BOOLEAN
    /\ rootDir \in {"absent", "foreign"}
    /\ tmpFiles = {}
    /\ rootFiles = {}
    /\ actionsLog = <<>>
    /\ compiledCount = 0
    /\ frameCount = 0
    /\ thoughtCount = 0
    /\ finalizeResult = "none"
    /\ finalize_calls = <<>>
Init == InitSession(MaxTick)
Next ==
    \/ Tick
    \/ WorkerDecode
    \/ WorkerSend
    \/ WorkerExit
    \/ RequestStop
    \/ ExternalCreateRoot
    \/ Create
    \/ WriteOptionsMeta
    \/ OpenSources
    \/ EnterLoop
    \/ LoopTop
    \/ FrameMiss
    \/ FrameGated
    \/ FrameEmit
    \/ FrameFatal
    \/ FrameClosed
    \/ DrainStep
    \/ ProcessWindow
    \/ Finalize
Spec == Init /\ [][Next]_vars

\* the session's thread is sequential code: once it stands at the top of the
\* loop it evaluates should_stop(), once it stands at pipeline.finalize() it
\* calls it, and finalize returns; these runs end one tick earlier
InitFair == InitSession(MaxTick - 2)
SpecFair == InitFair /\ [][Next]_vars /\ WF_vars(LoopTop) /\ WF_vars(Finalize)

\* the step loop of a session that was created and opened without a failure,
\* with no input arriving and no stop request, its clock explored two ticks
\* further so that a frame can arrive two whole steps behind the schedule
InitGate ==
    /\ InitCollector
    /\ InitAggIdle
    /\ InitUnitIdle
    /\ InitMockIdle
    /\ createResult = "ok"
    /\ ffmpeg = "running"
    /\ horizon = MaxTick + 2
    /\ workerAlive = TRUE
    /\ pc = "top"
    /\ stop_requested = FALSE
    /\ loopError = "none"
    /\ okCalls = 0
    /\ step_index = 0
    /\ next_capture_qpc = 0
    /\ content_size = 1
    /\ skipped = 0
    /\ frame = [step_index |-> 0, qpc_ts |-> 0]
    /\ tmpDir = TRUE
    /\ rootDir = "absent"
    /\ tmpFiles = LogFiles \cup JsonFiles
    /\ rootFiles = {}
    /\ actionsLog = <<>>
    /\ compiledCount = 0
    /\ frameCount = 0
    /\ thoughtCount = 0
    /\ finalizeResult = "none"
    /\ finalize_calls = <<>>
NextGate ==
    \/ Tick
    \/ LoopTop
    \/ FrameMiss
    \/ FrameGated
    \/ FrameEmit
    \/ DrainStep
    \/ ProcessWindow
SpecGate == InitGate /\ [][NextGate]_vars

\* ------------------------------------- encoder: FfmpegWriter::write_frame

\* the record sizes an encoder is spawned with
RecordSizes == {[width |-> 1, height |-> 1], [width |-> 2, height |-> 1]}
\* no session, no aggregator: only the unit under test is driven
InitIdle ==
    /\ InitCollector
    /\ horizon = MaxTick
    /\ workerAlive = FALSE
    /\ InitSessionIdle
    /\ InitMockIdle
    /\ InitAggIdle

\* FfmpegWriter::spawn for one of the record sizes
SpawnEncoder ==
    /\ frame_bytes = 0
    /\ \E size \in RecordSizes :
         /\ frame_bytes' = FrameBytes(size.width, size.height)
         /\ write_frame' = [called |-> FALSE, n |-> 0, width |-> size.width,
                           height |-> size.height]
    /\ UNCHANGED <<stdin, content, thought_line, thoughts_log, desktop, sampled>>
    /\ UNCHANGED <<collectorVars, mockVars, sessionVars, createVars, aggVars>>
    /\ UNCHANGED <<workerVars, lockVars, jsonl, runVars>>

\* a write_frame call with a buffer that is empty, one byte short, right or
\* one byte long, on a pipe that takes it or breaks part-way
WriteFrameCall ==
    /\ frame_bytes > 0
    /\ write_frame.n < MaxFrameWrites
    /\ \E len \in {0, frame_bytes - 1, frame_bytes, frame_bytes + 1}, pipe_ok \in BOOLEAN :
         \E sent \in (IF pipe_ok THEN {len} ELSE 0..(frame_bytes - 1)) :
            LET buf == FrameBuffer(write_frame.n + 1, len)
                r == WriteFrame(stdin, frame_bytes, buf, pipe_ok, sent)
            IN /\ stdin' = r.pipe
               /\ write_frame' = [called |-> TRUE, n |-> write_frame.n + 1,
                                  width |-> write_frame.width, height |-> write_frame.height,
                                  buf |-> buf, before |-> stdin, pipe_ok |-> pipe_ok,
                                  result |-> r.result]
    /\ UNCHANGED <<frame_bytes, content, thought_line, thoughts_log, desktop, sampled>>
    /\ UNCHANGED <<collectorVars, mockVars, sessionVars, createVars, aggVars>>
    /\ UNCHANGED <<workerVars, lockVars, jsonl, runVars>>

InitFrame == InitIdle /\ InitUnitIdle
NextFrame == SpawnEncoder \/ WriteFrameCall
SpecFrame == InitFrame /\ [][NextFrame]_vars

\* --------------------------------------- thoughts: format_thought_line

LabelStart ==
    <<"<", "|", "l", "a", "b", "e", "l", "i", "n", "g", "_", "i", "n", "s", "t", "r", "u",
      "c", "t", "_", "s", "t", "a", "r", "t", "|", ">">>
LabelEnd ==
    <<"<", "|", "l", "a", "b", "e", "l", "i", "n", "g", "_", "i", "n", "s", "t", "r", "u",
      "c", "t", "_", "e", "n", "d", "|", ">">>
THOUGHT_TEMPLATE ==
    LabelStart
      \o <<"L", "a", "b", "e", "l", "i", "n", "g", " ", "I", "n", "s", "t", "r", "u", "c", "t", " ">>
      \o LabelEnd

\* str::trim: white space is removed from both ends only
IsWhiteSpace(c) == c \in {" ", "\n"}
RECURSIVE TrimStart(_)
TrimStart(text) ==
    IF text # <<>> /\ IsWhiteSpace(Head(text)) THEN TrimStart(Tail(text)) ELSE text
RECURSIVE TrimEnd(_)
TrimEnd(text) ==
    IF text # <<>> /\ IsWhiteSpace(text[Len(text)])
       THEN TrimEnd(SubSeq(text, 1, Len(text) - 1))
       ELSE text
Trim(text) == TrimEnd(TrimStart(text))
\* str::contains
Contains(text, pattern) ==
    \E i \in 1..(Len(text) - Len(pattern) + 1) :
       SubSeq(text, i, i + Len(pattern) - 1) = pattern

\* format_thought_line
FormatThoughtLine(text) ==
    LET trimmed == Trim(text)
    IN IF trimmed = <<>> THEN THOUGHT_TEMPLATE
       ELSE IF Contains(trimmed, LabelStart) /\ Contains(trimmed, LabelEnd) THEN trimmed
       ELSE LabelStart \o trimmed \o <<" ">> \o LabelEnd
\* thought_content.unwrap_or_default()
UnwrapOrDefault(option) == IF option.some THEN option.text ELSE <<>>
\* JsonlWriter::write_line
WriteLine(log, line) == log \o line \o <<"\n">>

\* the texts a provider returns: up to MaxPieces pieces, each a blank, a line
\* break, a letter or one of the two sentinels
ThoughtPieces == {<<" ">>, <<"\n">>, <<"a">>, LabelStart, LabelEnd}
RECURSIVE Texts(_)
Texts(n) ==
    IF n = 0 THEN {<<>>}
    ELSE LET shorter == Texts(n - 1)
         IN shorter \cup {t \o piece : t \in shorter, piece \in ThoughtPieces}

\* the provider hands over its text for the step, or there is no provider
\* (the dry run beyond the end of its thoughts file)
ProvideThought ==
    /\ ~thought_line.made
    /\ \/ \E text \in Texts(MaxPieces) : content' = [some |-> TRUE, text |-> text]
       \/ content' = [some |-> FALSE]
    /\ UNCHANGED <<frame_bytes, stdin, write_frame, thought_line, thoughts_log, desktop, sampled>>
    /\ UNCHANGED <<collectorVars, mockVars, sessionVars, createVars, aggVars>>
    /\ UNCHANGED <<workerVars, lockVars, jsonl, runVars>>

\* the last two statements of process_window for one step
WriteThought ==
    /\ content # <<>>
    /\ ~thought_line.made
    /\ LET line == FormatThoughtLine(UnwrapOrDefault(content))
       IN /\ thought_line' = [made |-> TRUE, value |-> line]
          /\ thoughts_log' = WriteLine(thoughts_log, line)
    /\ UNCHANGED <<frame_bytes, stdin, write_frame, content, desktop, sampled>>
    /\ UNCHANGED <<collectorVars, mockVars, sessionVars, createVars, aggVars>>
    /\ UNCHANGED <<workerVars, lockVars, jsonl, runVars>>

InitThought == InitIdle /\ InitUnitIdle
NextThought == ProvideThought \/ WriteThought
SpecThought == InitThought /\ [][NextThought]_vars

\* ----------------------------- cursor geometry: sample_foreground_and_cursor

\* an f32 of the transform, kept as an exact fraction n / d with d > 0 in
\* lowest terms (rounding is left out)
RECURSIVE Gcd(_, _)
Gcd(a, b) == IF b = 0 THEN a ELSE Gcd(b, a % b)
Abs(a) == IF a < 0 THEN 0 - a ELSE a
Frac(n, d) ==
    LET g == Gcd(Abs(n), Abs(d))
        sign == IF d < 0 THEN -1 ELSE 1
    IN [n |-> (sign * n) \div g, d |-> (sign * d) \div g]
FAdd(a, b) == Frac(a.n * b.d + b.n * a.d, a.d * b.d)
FSub(a, b) == Frac(a.n * b.d - b.n * a.d, a.d * b.d)
FMul(a, b) == Frac(a.n * b.n, a.d * b.d)
FDiv(a, b) == Frac(a.n * b.d, a.d * b.n)
FLess(a, b) == a.n * b.d < b.n * a.d
FMin(a, b) == IF FLess(b, a) THEN b ELSE a
FMax(a, b) == IF FLess(a, b) THEN b ELSE a
\* f32::clamp(0.0, 1.0)
FClamp_LowerOnly(a) == IF FLess(a, Frac(0, 1)) THEN Frac(0, 1) ELSE a
FClamp(a) ==
    IF FLess(a, Frac(0, 1)) THEN Frac(0, 1)
    ELSE IF FLess(Frac(1, 1), a) THEN Frac(1, 1)
    ELSE a

\* x_norm (or, with the y arguments, y_norm) of the innermost block
Normalized(client_pt, client_len, dpi, src_len, dst_len, src_w, src_h, dst_w, dst_h) ==
    LET scale_axis == FDiv(Frac(src_len, 1), Frac(client_len, 1))
        dpi_scale == FMax(FDiv(Frac(dpi, 1), Frac(96, 1)), Frac(1, 10000))
        src_pt == FMul(FDiv(Frac(client_pt, 1), dpi_scale), scale_axis)
        scale == FMin(FDiv(Frac(dst_w, 1), Frac(src_w, 1)), FDiv(Frac(dst_h, 1), Frac(src_h, 1)))
        scaled_len == FMul(Frac(src_len, 1), scale)
        pad == FMul(FSub(Frac(dst_len, 1), scaled_len), Frac(1, 2))
        record_pt == FAdd(FMul(src_pt, scale), pad)
    IN FClamp(FDiv(record_pt, Frac(dst_len, 1)))

\* sample_foreground_and_cursor: (is_foreground, CursorProvider)
SampleForegroundAndCursor(os, src_width, src_height, record_width, record_height) ==
    LET client_w == IF os.rect_w > 0 THEN os.rect_w ELSE 0
        client_h == IF os.rect_h > 0 THEN os.rect_h ELSE 0
        mapped == /\ os.cursor_pos_ok
                  /\ record_width > 0 /\ record_height > 0
                  /\ src_width > 0 /\ src_height > 0
                  /\ os.screen_to_client_ok
                  /\ os.client_rect_ok
                  /\ client_w > 0 /\ client_h > 0
    IN [is_foreground |-> os.foreground_is_target,
        visible |-> IF os.cursor_info_ok THEN os.showing ELSE FALSE,
        x_norm |-> IF mapped
                      THEN Normalized(os.client_x, client_w, os.dpi, src_width, record_width,
                                      src_width, src_height, record_width, record_height)
                      ELSE Frac(0, 1),
        y_norm |-> IF mapped
                      THEN Normalized(os.client_y, client_h, os.dpi, src_height, record_height,
                                      src_width, src_height, record_width, record_height)
                      ELSE Frac(0, 1)]

\* what the OS may report: the target in the foreground or not, the cursor
\* shown or hidden, one of the calls failing, the cursor left of, inside and
\* far right of or below the client area, an empty, inverted or real client
\* rectangle, and a DPI of 0 (no such window), 96 and 192
OsFailures == {"none", "GetCursorInfo", "GetCursorPos", "ScreenToClient", "GetClientRect"}
ClientPoints == {<<-3, -3>>, <<0, 0>>, <<1, 1>>, <<9, 1>>, <<1, 9>>}
ClientRects == {<<0, 2>>, <<2, 0>>, <<-1, 2>>, <<2, 2>>, <<4, 2>>}
DpiValues == {0, 96, 192}
Desktops ==
    {[foreground_is_target |-> fg, showing |-> showing,
      cursor_info_ok |-> failure # "GetCursorInfo",
      cursor_pos_ok |-> failure # "GetCursorPos",
      screen_to_client_ok |-> failure # "ScreenToClient",
      client_rect_ok |-> failure # "GetClientRect",
      client_x |-> pt[1], client_y |-> pt[2], rect_w |-> rect[1], rect_h |-> rect[2],
      dpi |-> dpi, sampled |-> TRUE] :
        fg \in BOOLEAN, showing \in BOOLEAN, failure \in OsFailures,
        pt \in ClientPoints, rect \in ClientRects, dpi \in DpiValues}
\* (src_w, src_h) and (record_w, record_h) the sampler is called with
SourceSizes == {<<0, 2>>, <<2, 0>>, <<2, 1>>, <<1, 2>>}
RecordDims == {<<0, 2>>, <<2, 0>>, <<2, 2>>, <<4, 1>>}

\* the desktop is in some state when a step samples it
DesktopState ==
    /\ ~desktop.sampled
    /\ desktop' \in Desktops
    /\ UNCHANGED <<frame_bytes, stdin, write_frame, content, thought_line, thoughts_log, sampled>>
    /\ UNCHANGED <<collectorVars, mockVars, sessionVars, createVars, aggVars>>
    /\ UNCHANGED <<workerVars, lockVars, jsonl, runVars>>

\* a call of sample_foreground_and_cursor
SampleCall ==
    /\ desktop.sampled
    /\ ~sampled.returned
    /\ \E src \in SourceSizes, rec \in RecordDims :
         sampled' = [returned |-> TRUE, src_w |-> src[1], src_h |-> src[2],
                     record_w |-> rec[1], record_h |-> rec[2],
                     value |-> SampleForegroundAndCursor(desktop, src[1], src[2],
                                                         rec[1], rec[2])]
    /\ UNCHANGED <<frame_bytes, stdin, write_frame, content, thought_line, thoughts_log, desktop>>
    /\ UNCHANGED <<collectorVars, mockVars, sessionVars, createVars, aggVars>>
    /\ UNCHANGED <<workerVars, lockVars, jsonl, runVars>>

InitCursor == InitIdle /\ InitUnitIdle
NextCursor == DesktopState \/ SampleCall
SpecCursor == InitCursor /\ [][NextCursor]_vars

\* ------------------------------------- the raw-input worker's life

MaxFiltered == 1      \* WM_INPUT messages the foreground test turns away in one run

unitRestVars == <<frame_bytes, stdin, write_frame, content, thought_line, thoughts_log,
                  desktop, sampled, jsonl, runVars>>

\* run_message_loop's set-up in order: RegisterClassW, CreateWindowExW (and the
\* context stored in the window), RegisterRawInputDevices
InitSteps == <<"class", "window", "devices">>

\* one set-up step of run_message_loop: a failed step sends Err on the ready
\* channel and the thread returns; the last step done, Ok(thread_id) is sent
SetUp(done, ok) ==
    LET step == InitSteps[Cardinality(done) + 1]
    IN IF ~ok
       THEN [worker |-> "Errored", init_done |-> done, ready |-> "err"]
       ELSE IF Cardinality(done) + 1 = Len(InitSteps)
            THEN [worker |-> "Ready", init_done |-> done \cup {step}, ready |-> "ok"]
            ELSE [worker |-> "Initializing", init_done |-> done \cup {step},
                  ready |-> "empty"]

\* ready_rx.recv()??: Ok(thread_id) makes the collector, an Err is returned
RecvReady(message) == IF message = "ok" THEN "holds" ELSE "new_failed"

\* Drop: PostThreadMessageW(thread_id, WM_QUIT) reaches the queue of a thread
\* that is still running; the result of the call is not looked at
PostQuit_Lost(phase) == phase

PostQuit(phase) == IF phase \in {"Ready", "Pumping"} THEN "QuitRequested" ELSE phase

\* RawInputCollectorImpl::new, up to ready_rx.recv(): the channels are made and
\* the worker thread is spawned
NewCall ==
    /\ owner = "none"
    /\ owner' = "new"
    /\ worker' = "Initializing"
    /\ UNCHANGED <<init_done, ready, target, foreground, filtered>>
    /\ UNCHANGED <<collectorVars, mockVars, sessionVars, createVars, aggVars, unitRestVars, lockVars>>

\* run_message_loop before its loop, one OS call at a time
WorkerSetUp ==
    /\ worker = "Initializing"
    /\ \E ok \in BOOLEAN :
        LET r == SetUp(init_done, ok)
        IN /\ worker' = r.worker
           /\ init_done' = r.init_done
           /\ ready' = r.ready
    /\ UNCHANGED <<owner, target, foreground, filtered>>
    /\ UNCHANGED <<collectorVars, mockVars, sessionVars, createVars, aggVars, unitRestVars, lockVars>>

\* RawInputCollectorImpl::new returns once the ready channel has a message
NewReturn ==
    /\ owner = "new"
    /\ ready # "empty"
    /\ owner' = RecvReady(ready)
    /\ UNCHANGED <<worker, init_done, ready, target, foreground, filtered>>
    /\ UNCHANGED <<collectorVars, mockVars, sessionVars, createVars, aggVars, unitRestVars, lockVars>>

\* the worker enters its GetMessageW loop
WorkerPump ==
    /\ worker = "Ready"
    /\ worker' = "Pumping"
    /\ workerAlive' = TRUE
    /\ UNCHANGED <<clock, horizon, wpending, nsent, chan, buffer, dropped_events, last,
                   returned>>
    /\ UNCHANGED <<owner, init_done, ready, target, foreground, filtered>>
    /\ UNCHANGED <<mockVars, sessionVars, createVars, aggVars, unitRestVars, lockVars>>

\* the OS moves the foreground to or away from the target window
ForegroundChange ==
    /\ owner # "dropped"
    /\ foreground' = ~foreground
    /\ UNCHANGED <<owner, worker, init_done, ready, target, filtered>>
    /\ UNCHANGED <<collectorVars, mockVars, sessionVars, createVars, aggVars, unitRestVars, lockVars>>

\* handle_raw_input returns Ok(()) at its foreground test: nothing is decoded
WorkerSkip ==
    /\ kind = "raw"
    /\ workerAlive
    /\ wpending = <<>>
    /\ ~PassesFilter(target, foreground)
    /\ filtered < MaxFiltered
    /\ filtered' = filtered + 1
    /\ UNCHANGED <<owner, worker, init_done, ready, target, foreground>>
    /\ UNCHANGED <<collectorVars, mockVars, sessionVars, createVars, aggVars, unitRestVars, lockVars>>

\* the thread that holds the collector drains it
OwnerDrain ==
    /\ owner = "holds"
    /\ DrainCall

\* Drop for RawInputCollectorImpl, first half: WM_QUIT is posted to the worker
\* thread, then the thread waits in join()
DropCall ==
    /\ owner = "holds"
    /\ owner' = "dropping"
    /\ worker' = PostQuit(worker)
    /\ UNCHANGED <<init_done, ready, target, foreground, filtered>>
    /\ UNCHANGED <<collectorVars, mockVars, sessionVars, createVars, aggVars, unitRestVars, lockVars>>

\* GetMessageW returns 0 for WM_QUIT: the loop ends between two messages and
\* the thread returns, dropping its context with the Sender
WorkerQuit ==
    /\ worker = "QuitRequested"
    /\ wpending = <<>>
    /\ worker' = "Exited"
    /\ workerAlive' = FALSE
    /\ UNCHANGED <<clock, horizon, wpending, nsent, chan, buffer, dropped_events, last,
                   returned>>
    /\ UNCHANGED <<owner, init_done, ready, target, foreground, filtered>>
    /\ UNCHANGED <<mockVars, sessionVars, createVars, aggVars, unitRestVars, lockVars>>

\* Drop, second half: handle.join() returns once the thread has returned
JoinReturn ==
    /\ owner = "dropping"
    /\ worker = "Exited"
    /\ owner' = "dropped"
    /\ worker' = "Joined"
    /\ UNCHANGED <<init_done, ready, target, foreground, filtered>>
    /\ UNCHANGED <<collectorVars, mockVars, sessionVars, createVars, aggVars, unitRestVars, lockVars>>

\* no collector yet; it will be made by new() (no target) or by
\* new_with_target(Some(hwnd)) as the GUI runner does
InitWorker ==
    /\ InitCollector
    /\ InitAggIdle
    /\ InitUnitRestIdle
    /\ InitSessionIdle
    /\ horizon = 1
    /\ workerAlive = FALSE
    /\ kind = "raw"
    /\ stream = <<>>
    /\ arrived = 0
    /\ mock_index = 0
    /\ winK = 0
    /\ owner = "none"
    /\ worker = "none"
    /\ init_done = {}
    /\ ready = "empty"
    /\ target \in {"none", "some"}
    /\ foreground \in BOOLEAN
    /\ filtered = 0
    /\ InitLockIdle
NextWorker ==
    \/ NewCall
    \/ WorkerSetUp
    \/ NewReturn
    \/ WorkerPump
    \/ ForegroundChange
    \/ WorkerDecode
    \/ WorkerSkip
    \/ WorkerSend
    \/ OwnerDrain
    \/ DropCall
    \/ WorkerQuit
    \/ JoinReturn
\* the OS schedules both threads: a runnable thread takes its next step
SpecWorker ==
    /\ InitWorker
    /\ [][NextWorker]_vars
    /\ WF_vars(WorkerSetUp)
    /\ WF_vars(NewReturn)
    /\ WF_vars(WorkerSend)
    /\ WF_vars(WorkerQuit)
    /\ WF_vars(JoinReturn)

\* ------------------------------------- the thought cell and its mutex

MaxSetCalls == 2      \* set_thought calls the GUI thread makes in one run
MaxLockSteps == 2     \* steps the session thread runs

SetTexts == {"a", "b"}

\* the provider closure: lock().map(|value| value.clone()); the guard is
\* dropped inside the closure, before the clone is returned
AfterClone_Held(holder) == holder

AfterClone(holder) == "free"

\* GuiSessionHandle::set_thought is called
SetThoughtCall ==
    /\ gui_pc = "idle"
    /\ loop_pc # "idle"
    /\ set_calls < MaxSetCalls
    /\ \E text \in SetTexts :
        gui_text' = text
    /\ gui_pc' = "lock"
    /\ set_calls' = set_calls + 1
    /\ UNCHANGED <<thought, thought_lock, loop_pc, provided, lock_steps>>
    /\ UNCHANGED <<collectorVars, mockVars, sessionVars, createVars, aggVars, unitRestVars,
                   workerVars>>

\* set_thought: self.thought.lock() returns the guard
SetThoughtLock ==
    /\ gui_pc = "lock"
    /\ thought_lock = "free"
    /\ thought_lock' = "gui"
    /\ gui_pc' = "store"
    /\ UNCHANGED <<thought, gui_text, loop_pc, provided, lock_steps, set_calls>>
    /\ UNCHANGED <<collectorVars, mockVars, sessionVars, createVars, aggVars, unitRestVars,
                   workerVars>>

\* set_thought: *guard = text; Ok(()) drops the guard
SetThoughtStore ==
    /\ gui_pc = "store"
    /\ thought' = gui_text
    /\ thought_lock' = "free"
    /\ gui_pc' = "idle"
    /\ UNCHANGED <<gui_text, loop_pc, provided, lock_steps, set_calls>>
    /\ UNCHANGED <<collectorVars, mockVars, sessionVars, createVars, aggVars, unitRestVars,
                   workerVars>>

\* the step up to the thought provider: next_frame, drain_events, the cursor
\* sample and the on_frame hook
StepBegin ==
    /\ loop_pc = "pull"
    /\ loop_pc' = "provider"
    /\ UNCHANGED <<thought, thought_lock, gui_pc, gui_text, provided, lock_steps, set_calls>>
    /\ UNCHANGED <<collectorVars, mockVars, sessionVars, createVars, aggVars, unitRestVars,
                   workerVars>>

\* the thought provider: thought_state_thread.lock() returns the guard
ProviderLock ==
    /\ loop_pc = "provider"
    /\ thought_lock = "free"
    /\ thought_lock' = "loop"
    /\ loop_pc' = "clone"
    /\ UNCHANGED <<thought, gui_pc, gui_text, provided, lock_steps, set_calls>>
    /\ UNCHANGED <<collectorVars, mockVars, sessionVars, createVars, aggVars, unitRestVars,
                   workerVars>>

\* the thought provider: value.clone() and the return
ProviderClone ==
    /\ loop_pc = "clone"
    /\ provided' = thought
    /\ thought_lock' = AfterClone(thought_lock)
    /\ loop_pc' = "write_window"
    /\ UNCHANGED <<thought, gui_pc, gui_text, lock_steps, set_calls>>
    /\ UNCHANGED <<collectorVars, mockVars, sessionVars, createVars, aggVars, unitRestVars,
                   workerVars>>

\* process_window's three writes in turn: write_window, write_frame (the
\* encoder's stdin), write_thought; then the next iteration or finalize
WriteStep ==
    /\ loop_pc \in {"write_window", "write_frame", "write_thought"}
    /\ loop_pc' = CASE loop_pc = "write_window" -> "write_frame"
                    [] loop_pc = "write_frame" -> "write_thought"
                    [] loop_pc = "write_thought" ->
                           IF lock_steps + 1 < MaxLockSteps THEN "pull" ELSE "finalized"
    /\ lock_steps' = IF loop_pc = "write_thought" THEN lock_steps + 1 ELSE lock_steps
    /\ UNCHANGED <<thought, thought_lock, gui_pc, gui_text, provided, set_calls>>
    /\ UNCHANGED <<collectorVars, mockVars, sessionVars, createVars, aggVars, unitRestVars,
                   workerVars>>

\* start_realtime_async has made the cell, empty, and spawned the session thread
InitLock ==
    /\ InitIdle
    /\ InitUnitRestIdle
    /\ InitWorkerIdle
    /\ thought = ""
    /\ thought_lock = "free"
    /\ gui_pc = "idle"
    /\ gui_text = ""
    /\ loop_pc = "pull"
    /\ provided = ""
    /\ lock_steps = 0
    /\ set_calls = 0
NextLock ==
    \/ SetThoughtCall
    \/ SetThoughtLock
    \/ SetThoughtStore
    \/ StepBegin
    \/ ProviderLock
    \/ ProviderClone
    \/ WriteStep
\* a thread that holds the guard is running and takes its next step
SpecLock ==
    /\ InitLock
    /\ [][NextLock]_vars
    /\ WF_vars(SetThoughtStore)
    /\ WF_vars(ProviderClone)

\* ------------------------------------- one JsonlWriter and its flushes

MaxLines == 5         \* lines written to the log in one run

FlushLineArgs == {0, 1, 2, 3}   \* flush_every_lines as handed to JsonlWriter::new
FlushEveryArgs == {0, 2, 9}     \* flush_every in ticks; 9 is longer than any run

\* JsonlWriter::new: flush_every_lines.max(1), last_flush = Instant::now()
NewJsonl(flush_every_lines, flush_every, now) ==
    [made |-> TRUE, lines_arg |-> flush_every_lines, line_count |-> 0, last_flush |-> now,
     flush_every_lines |-> Max(flush_every_lines, 1), flush_every |-> flush_every,
     unflushed |-> 0, op |-> "new", result |-> "ok", elapsed |-> 0, flushed |-> FALSE]

\* after_write's condition
ShouldFlush_TimeOnly(line_count, every_lines, elapsed, every) == elapsed >= every

ShouldFlush(line_count, every_lines, elapsed, every) ==
    line_count % every_lines = 0 \/ elapsed >= every

\* JsonlWriter::flush: last_flush = Instant::now(), then writer.flush()
FlushJsonl(w, now, flush_ok) ==
    [w EXCEPT !.last_flush = now,
              !.unflushed = IF flush_ok THEN 0 ELSE w.unflushed,
              !.result = IF flush_ok THEN "ok" ELSE "err",
              !.flushed = TRUE]

\* write_line / write_json: the line and its newline are written, then
\* after_write counts the line and flushes when ShouldFlush says so
WriteJsonl(w, now, write_ok, flush_ok) ==
    IF ~write_ok
    THEN [w EXCEPT !.op = "write", !.result = "err", !.flushed = FALSE]
    ELSE LET counted == [w EXCEPT !.op = "write", !.line_count = w.line_count + 1,
                                  !.unflushed = w.unflushed + 1,
                                  !.elapsed = now - w.last_flush,
                                  !.result = "ok", !.flushed = FALSE]
         IN IF ShouldFlush(counted.line_count, counted.flush_every_lines,
                           now - counted.last_flush, counted.flush_every)
            THEN FlushJsonl(counted, now, flush_ok)
            ELSE counted

\* the session writes a line to the log; after an Err the session ends, and
\* the log is not written again
WriteLineCall ==
    /\ jsonl.made
    /\ jsonl.result = "ok"
    /\ jsonl.line_count < MaxLines
    /\ \E write_ok \in BOOLEAN, flush_ok \in BOOLEAN :
        jsonl' = WriteJsonl(jsonl, clock, write_ok, flush_ok)
    /\ UNCHANGED <<frame_bytes, stdin, write_frame, content, thought_line, thoughts_log,
                   desktop, sampled>>
    /\ UNCHANGED <<collectorVars, mockVars, sessionVars, createVars, aggVars, workerVars,
                   lockVars, runVars>>

\* finalize flushes the log
FlushCall ==
    /\ jsonl.made
    /\ jsonl.result = "ok"
    /\ jsonl.op # "flush"
    /\ \E flush_ok \in BOOLEAN :
        jsonl' = [FlushJsonl(jsonl, clock, flush_ok) EXCEPT !.op = "flush"]
    /\ UNCHANGED <<frame_bytes, stdin, write_frame, content, thought_line, thoughts_log,
                   desktop, sampled>>
    /\ UNCHANGED <<collectorVars, mockVars, sessionVars, createVars, aggVars, workerVars,
                   lockVars, runVars>>

InitJsonl ==
    /\ InitIdle
    /\ InitUnitCoreIdle
    /\ InitWorkerIdle
    /\ InitLockIdle
    /\ InitRunIdle
    /\ \E flush_every_lines \in FlushLineArgs, flush_every \in FlushEveryArgs :
        jsonl = NewJsonl(flush_every_lines, flush_every, 1)
NextJsonl ==
    \/ Tick
    \/ WriteLineCall
    \/ FlushCall
SpecJsonl == InitJsonl /\ [][NextJsonl]_vars

\* ------------------------------------- the step loop with a live encoder

\* the step loop of a session that was created and opened without a failure,
\* its encoder spawned for a record of one pixel
InitSinks ==
    /\ InitCollector
    /\ InitAggIdle
    /\ frame_bytes = FrameBytes(1, 1)
    /\ stdin = <<>>
    /\ write_frame = [called |-> FALSE]
    /\ content = <<>>
    /\ thought_line = [made |-> FALSE]
    /\ thoughts_log = <<>>
    /\ desktop = [sampled |-> FALSE]
    /\ sampled = [returned |-> FALSE]
    /\ jsonl = [made |-> FALSE]
    /\ InitRunIdle
    /\ InitWorkerIdle
    /\ InitLockIdle
    /\ InitMockIdle
    /\ createResult = "ok"
    /\ ffmpeg = "running"
    /\ horizon = MaxTick
    /\ workerAlive = TRUE
    /\ pc = "top"
    /\ stop_requested = FALSE
    /\ loopError = "none"
    /\ okCalls = 0
    /\ step_index = 0
    /\ next_capture_qpc = 0
    /\ content_size = 1
    /\ skipped = 0
    /\ frame = [step_index |-> 0, qpc_ts |-> 0]
    /\ tmpDir = TRUE
    /\ rootDir = "absent"
    /\ tmpFiles = LogFiles \cup JsonFiles
    /\ rootFiles = {}
    /\ actionsLog = <<>>
    /\ compiledCount = 0
    /\ frameCount = 0
    /\ thoughtCount = 0
    /\ finalizeResult = "none"
    /\ finalize_calls = <<>>
NextSinks ==
    \/ Tick
    \/ LoopTop
    \/ FrameMiss
    \/ FrameGated
    \/ FrameEmit
    \/ DrainStep
    \/ ProcessWindow
SpecSinks == InitSinks /\ [][NextSinks]_vars

\* ------------------------------------- create, run after run

MaxCreates == 3       \* create calls made on the one dataset root

\* the directories of a finished run, put down at their paths
StoreLayout(dirs, name, temp_exists, root, temp_files, root_files) ==
    [dirs EXCEPT ![TempPath(name)] = [dir |-> IF temp_exists THEN "temp" ELSE "absent",
                                     files |-> temp_files],
                 ![RootPath(name)] = [dir |-> root, files |-> root_files]]

\* what a create for `name` finds at its two paths: layout.temp_dir.exists()
\* and layout.root_dir.exists() look at the paths, whoever made them
LoadLayout(dirs, name) ==
    [tmpDir |-> dirs[TempPath(name)].dir # "absent",
     tmpFiles |-> dirs[TempPath(name)].files,
     rootDir |-> IF dirs[RootPath(name)].dir = "temp" THEN "foreign"
                 ELSE dirs[RootPath(name)].dir,
     rootFiles |-> dirs[RootPath(name)].files]

\* a later run calls SessionWriter::create with the same or another name, after
\* a create that returned Err
NewRun ==
    /\ pc = "create_failed"
    /\ Len(earlier) + 1 < MaxCreates
    /\ \E name \in SessionNames :
        LET stored == StoreLayout(sessions_dir, session_name, tmpDir, rootDir, tmpFiles,
                                  rootFiles)
            layout == LoadLayout(stored, name)
        IN /\ session_name' = name
           /\ sessions_dir' = stored
           /\ tmpDir' = layout.tmpDir
           /\ rootDir' = layout.rootDir
           /\ tmpFiles' = layout.tmpFiles
           /\ rootFiles' = layout.rootFiles
    /\ earlier' = Append(earlier, [name |-> session_name, result |-> createResult,
                                   tmp |-> tmpDir])
    /\ pc' = "start"
    /\ createResult' = "none"
    /\ ffmpeg' = "none"
    /\ UNCHANGED <<stop_requested, loopError, okCalls, actionsLog, compiledCount, frameCount,
                   thoughtCount, finalizeResult, finalize_calls>>
    /\ UNCHANGED <<collectorVars, mockVars, frameVars, aggVars>>
    /\ UNCHANGED <<frame_bytes, stdin, write_frame, content, thought_line, thoughts_log,
                   desktop, sampled, workerVars, lockVars, jsonl>>

\* an empty dataset root; the first create is for "a"
InitCreate ==
    /\ InitSession(MaxTick)
    /\ ~tmpDir
    /\ rootDir = "absent"
NextCreate ==
    \/ Create
    \/ NewRun
SpecCreate == InitCreate /\ [][NextCreate]_vars

\* ------------------------------------------------------------ properties

C5_AtMostOnce ==
    \A i \in 1..Len(returned) : \A j \in 1..Len(returned) :
        i # j => returned[i].id # returned[j].id
\* the window of the last call covers an event an earlier call had already
\* returned, and the last call returned other events
C5_Witness ==
    /\ kind = "raw"
    /\ last.calls >= 2
    /\ last.out # <<>>
    /\ \E i \in 1..(Len(returned) - Len(last.out)) :
          last.start <= returned[i].ts /\ returned[i].ts < last.end

\* C6: events are returned in non-decreasing tick order, within one returned
\* list and across the lists of successive calls.
C6_TickOrder == IsTickOrdered(returned)
\* two calls have returned events of different ticks
C6_Witness ==
    /\ kind = "raw"
    /\ last.calls >= 2
    /\ last.out # <<>>
    /\ Len(returned) > Len(last.out)
    /\ returned[1].ts < returned[Len(returned)].ts

C4_ContiguousWindows ==
    /\ returned = SelectSeq(stream, LAMBDA e : e.ts < winK * Delta)
    /\ winK = NumWindows => returned = stream
\* all windows drained over a full-length stream that spans several windows
C4_Witness ==
    /\ winK = NumWindows
    /\ Len(stream) = MaxStream
    /\ returned = stream
    /\ stream[1].ts < Delta
    /\ stream[Len(stream)].ts >= Delta

\* C1 as stated: whenever finalize returns an error <name>/ does not exist,
\* whenever it returns Ok <name>.tmp/ is gone and <name>/ holds all expected
\* files; so once finalize has returned, <name>/ exists iff it succeeded.
C1_AsStated ==
    finalizeResult # "none" =>
        /\ finalizeResult = "err" => rootDir = "absent"
        /\ finalizeResult = "ok" =>
              ~tmpDir /\ rootDir # "absent" /\ ExpectedFiles \subseteq rootFiles
        /\ rootDir # "absent" <=> finalizeResult = "ok"

\* C1 (amended): finalize is transactional in what the session itself does.
\* When it returns an error it has renamed nothing: <name>.tmp/ is still there
\* and <name>/ is not the session's (it exists only if someone else created it,
\* the case finalize rejects with AlreadyExists). When it returns Ok,
\* <name>.tmp/ is gone and <name>/ holds all expected files. So <name>/ is the
\* session's directory iff a finalize call succeeded.
C1_Transactional ==
    /\ finalizeResult = "err" => tmpDir /\ rootDir # "session"
    /\ finalizeResult = "ok" =>
          ~tmpDir /\ rootDir = "session" /\ ExpectedFiles \subseteq rootFiles
    /\ rootDir = "session" <=> finalizeResult = "ok"
\* a session that wrote steps and whose finalize succeeded
C1_Witness ==
    /\ finalizeResult = "ok"
    /\ rootDir = "session"
    /\ Len(actionsLog) >= 1

\* C2 as stated: overflow is the only way an event is discarded and every
\* discard is counted, so every event the worker has put on the channel is
\* still queued (channel or deque), was returned by a drain_events call, or is
\* in the dropped-event counter.
C2_EveryDiscardCounted ==
    nsent - Len(wpending) =
        Len(chan) + Len(buffer) + Len(returned) + dropped_events

\* C8: as long as every process_window call has returned Ok, after k calls the
\* actions log, the compiled log, the thoughts log and the encoder input hold
\* exactly k records each; a session that reaches finalize has the same number
\* of records in all four sinks.
C8_OneRecordPerSink ==
    /\ loopError = "none" =>
          /\ Len(actionsLog) = okCalls
          /\ compiledCount = okCalls
          /\ frameCount = okCalls
          /\ thoughtCount = okCalls
    /\ finalizeResult # "none" =>
          /\ compiledCount = Len(actionsLog)
          /\ frameCount = Len(actionsLog)
          /\ thoughtCount = Len(actionsLog)
\* a finalized session of at least two steps
C8_Witness ==
    /\ finalizeResult = "ok"
    /\ okCalls >= 2
    /\ thoughtCount = okCalls

\* C9: the k-th snapshot written to the actions log (counting from 0) has
\* step_index = k, and the frame source has handed out exactly the indices
\* below its counter, whatever frames were missed, gated or resized.
C9_StepIndexDense ==
    /\ \A k \in 1..Len(actionsLog) : actionsLog[k] = k - 1
    /\ pc \in {"drain", "process"} => frame.step_index = step_index - 1
    /\ Len(actionsLog) <= step_index
\* two snapshots written after a frame was passed over and the content resized
C9_Witness ==
    /\ Len(actionsLog) >= 2
    /\ skipped >= 1
    /\ content_size = 2

\* C10: once the step loop has returned an error, finalize is never called:
\* <name>.tmp/ stays in place and the session never creates <name>/.
C10_ErrorLeavesTemp ==
    loopError # "none" =>
        /\ pc = "failed"
        /\ finalizeResult = "none"
        /\ tmpDir
        /\ rootDir # "session"
\* a write failed after at least one step had been written
C10_Witness ==
    /\ loopError = "write"
    /\ okCalls >= 1
    /\ tmpDir

\* C11 as stated: once stop has been requested, a run whose loop had started
\* and that has ended has invoked finalize and the session directory has been
\* renamed.
C11_AsStated ==
    (stop_requested /\ pc \in {"done", "failed"} /\ loopError # "step_ticks") =>
        (finalizeResult # "none" /\ rootDir = "session")

\* C11 (amended): whenever stop_requested is true when the loop reaches its
\* top-of-iteration check, or the frame source reports end-of-stream, the loop
\* exits without pulling another frame and finalize is invoked, exactly once;
\* the session directory is renamed iff that finalize call returns Ok.
C11_StopFinalizes ==
    /\ [][(pc = "top" /\ stop_requested) => pc' \in {"top", "finalize"}]_vars
    /\ [][pc = "finalize" => pc' \in {"finalize", "done"}]_vars
    /\ [][finalizeResult # "none" => finalizeResult' = finalizeResult]_vars
    /\ (pc = "top" /\ stop_requested) ~> (pc = "done")
    /\ (pc = "finalize") ~> (pc = "done")
    /\ [](pc = "done" =>
            (finalizeResult # "none" /\ (rootDir = "session" <=> finalizeResult = "ok")))
\* stop was requested after at least one step and the session was finalized
C11_Witness ==
    /\ stop_requested
    /\ okCalls >= 1
    /\ pc = "done"
    /\ finalizeResult = "ok"

\* C12: when <name>/ or <name>.tmp/ exists, SessionWriter::create returns
\* AlreadyExists and has created no directory, no file and no encoder process.
C12_CreateRefusesExisting ==
    [][(pc = "start" /\ pc' # "start" /\ (tmpDir \/ rootDir # "absent")) =>
          /\ createResult' = "AlreadyExists"
          /\ ffmpeg' = "none"
          /\ UNCHANGED <<tmpDir, rootDir, tmpFiles, rootFiles>>]_vars
\* create was refused because <name>/ was already there
C12_Witness ==
    /\ createResult = "AlreadyExists"
    /\ rootDir = "foreign"
    /\ ~tmpDir

\* ------------------------------------- properties of the aggregator/compiler

\* reading a call's arguments and results back
Range(list) == {list[i] : i \in 1..Len(list)}
CallKeyEvents == InRangeKeyEvents(call.events, call.start, call.end)
CallInRange(eventKind) ==
    SelectSeq(call.events, LAMBDA e : /\ e.kind = eventKind
                                      /\ e.qpc_ts >= call.start
                                      /\ e.qpc_ts < call.end)
CountOf(text, c) == Cardinality({i \in 1..Len(text) : text[i] = c})
\* the fields of a text between the occurrences of a separator character
RECURSIVE SplitAt(_, _, _)
SplitAt(text, c, field) ==
    IF text = <<>> THEN <<field>>
    ELSE IF Head(text) = c THEN <<field>> \o SplitAt(Tail(text), c, <<>>)
    ELSE SplitAt(Tail(text), c, Append(field, Head(text)))
\* a decimal numeral read back as an integer
DigitValue(c) ==
    CASE c = "0" -> 0 [] c = "1" -> 1 [] c = "2" -> 2 [] c = "3" -> 3 [] c = "4" -> 4
      [] c = "5" -> 5 [] c = "6" -> 6 [] c = "7" -> 7 [] c = "8" -> 8 [] c = "9" -> 9
RECURSIVE ParseNat(_, _)
ParseNat(chars, acc) ==
    IF chars = <<>> THEN acc ELSE ParseNat(Tail(chars), 10 * acc + DigitValue(Head(chars)))
ParseInt(chars) ==
    IF Head(chars) = "-" THEN 0 - ParseNat(Tail(chars), 0) ELSE ParseNat(chars, 0)
\* the part of the action string between the two sentinels, split at ';'
ActionFields ==
    SplitAt(SubSeq(compiled.text, Len(ActionStart) + 1, Len(compiled.text) - Len(ActionEnd)),
            ";", <<>>)
\* DX, DY and WHEEL as written in the action string
ActionNumbers ==
    LET words == SplitAt(ActionFields[1], " ", <<>>)
    IN [dx |-> ParseInt(words[1]), dy |-> ParseInt(words[2]), wheel |-> ParseInt(words[3])]
EmptyActionString ==
    <<"<", "|", "a", "c", "t", "i", "o", "n", "_", "s", "t", "a", "r", "t", "|", ">",
      "0", " ", "0", " ", "0", " ", ";", " ", ";", " ", ";", " ", ";", " ", ";", " ", ";",
      "<", "|", "a", "c", "t", "i", "o", "n", "_", "e", "n", "d", "|", ">">>

\* C13: a window aggregated with is_foreground = false yields a snapshot with
\* dx = dy = wheel = 0, empty down, pressed and released lists, no button
\* marked, and the cursor sample that was passed in, whatever the events and
\* the prior key state.
C13_BackgroundSnapshotZeroed ==
    (call.called /\ ~call.is_foreground) =>
        /\ snapshot.value.dx = 0 /\ snapshot.value.dy = 0 /\ snapshot.value.wheel = 0
        /\ snapshot.value.down = <<>>
        /\ snapshot.value.pressed = <<>>
        /\ snapshot.value.released = <<>>
        /\ \A b \in {"left", "right", "middle", "x1", "x2"} : ~snapshot.value.buttons[b]
        /\ snapshot.value.cursor = call.cursor
        /\ ~snapshot.value.is_foreground
\* a background window that held a mouse move and a click, with the second cursor
C13_Witness ==
    /\ call.called
    /\ ~call.is_foreground
    /\ CallInRange("MouseMove") # <<>>
    /\ \E i \in 1..Len(call.events) :
          call.events[i].kind = "MouseButton" /\ call.events[i].is_down
    /\ ~call.cursor.visible
    /\ snapshot.value.cursor = call.cursor

\* C14 as stated: after a window aggregated with is_foreground = false the set
\* of down keys equals the set before the call, whatever the window contains.
C14_AsStated ==
    (call.called /\ ~call.is_foreground) => down_keys = call.down_before

\* C14 (amended): a window aggregated with is_foreground = false does not reset
\* the held-key state: state.down after the call is state.down before the call
\* with the window's in-range key events applied (a key whose last such event
\* is a KeyDown is in, one whose last is a KeyUp is out, any other key is as
\* before); it is unchanged when the window holds no in-range key event.
C14_BackgroundKeepsHeldKeys ==
    (call.called /\ ~call.is_foreground) =>
        /\ \A k \in AggKeys :
              k \in down_keys <=>
                 \/ LastKind(CallKeyEvents, k) = "KeyDown"
                 \/ LastKind(CallKeyEvents, k) = "none" /\ k \in call.down_before
        /\ CallKeyEvents = <<>> => down_keys = call.down_before
\* a background window during which one key stayed held and another went down
C14_Witness ==
    /\ call.called
    /\ ~call.is_foreground
    /\ "A" \in call.down_before
    /\ LastKind(CallKeyEvents, "A") = "none"
    /\ LastKind(CallKeyEvents, "W") = "KeyDown"
    /\ down_keys = {"A", "W"}

\* C15: a KeyDown(X) inside a window aggregated with is_foreground = false is
\* remembered: X is in state.down afterwards and stays there until released,
\* and a following foreground window with no events lists X in down.
C15_BackgroundKeyDownRemembered ==
    /\ (call.called /\ ~call.is_foreground) =>
          \A k \in AggKeys : LastKind(CallKeyEvents, k) = "KeyDown" => k \in down_keys
    /\ bg_held \subseteq down_keys
    /\ (call.called /\ call.is_foreground /\ call.events = <<>>) =>
          bg_held \subseteq Range(snapshot.value.down)
\* an empty foreground window right after a key went down in the background
C15_Witness ==
    /\ call.called
    /\ call.is_foreground
    /\ call.events = <<>>
    /\ bg_held # {}
    /\ bg_held \subseteq Range(snapshot.value.down)

\* C16: a key whose latest event so far is a KeyDown is listed in down by every
\* foreground snapshot (and in pressed only when the window itself has a
\* KeyDown for it); a foreground window with a KeyUp for it lists it in
\* released; once its latest event is a KeyUp it is no longer in down, and a
\* key never pressed is never in down.
C16_HeldKeysPersist ==
    /\ down_keys = held
    /\ (call.called /\ call.is_foreground) =>
          \A k \in AggKeys :
             LET lastKind == LastKind(CallKeyEvents, k)
                 hasDown == \E i \in 1..Len(CallKeyEvents) :
                               CallKeyEvents[i] = KeyDown(CallKeyEvents[i].qpc_ts, k)
                 hasUp == \E i \in 1..Len(CallKeyEvents) :
                             CallKeyEvents[i] = KeyUp(CallKeyEvents[i].qpc_ts, k)
                 snap == snapshot.value
             IN /\ (k \in call.held_before /\ lastKind = "none") =>
                      (k \in Range(snap.down) /\ k \notin Range(snap.pressed))
                /\ hasUp <=> k \in Range(snap.released)
                /\ hasDown <=> k \in Range(snap.pressed)
                /\ lastKind = "KeyUp" => k \notin Range(snap.down)
                /\ lastKind = "KeyDown" => k \in Range(snap.down)
                /\ (k \notin call.held_before /\ ~hasDown) => k \notin Range(snap.down)
\* a foreground window in which one held key was released and another stayed held
C16_Witness ==
    /\ call.called
    /\ call.is_foreground
    /\ {"A", "W"} \subseteq call.held_before
    /\ LastKind(CallKeyEvents, "A") = "KeyUp"
    /\ LastKind(CallKeyEvents, "W") = "none"
    /\ snapshot.value.down = <<"W">>
    /\ snapshot.value.released = <<"A">>

\* C17 as stated: the down, pressed and released lists of a snapshot are in
\* the canonical key order of the compiled bins (group rank, then index within
\* the group, then lexicographic), so W precedes A and Shift precedes A.
C17_CanonicalKeyOrder ==
    (call.called /\ call.is_foreground) =>
        \A list \in {snapshot.value.down, snapshot.value.pressed, snapshot.value.released} :
           \A i, j \in 1..Len(list) : i < j => RankLess(list[i], list[j])

\* C18: the compiled string is "<|action_start|>DX DY WHEEL", then six times
\* " ;" followed by nothing or by a space and the bin's keys joined by spaces,
\* then "<|action_end|>"; it holds exactly six ';', each after a space; with no
\* events and no held keys it is "<|action_start|>0 0 0 ; ; ; ; ; ;<|action_end|>".
C18_ActionStringShape ==
    compiled.returned =>
        LET text == compiled.text
            fields == ActionFields
        IN /\ SubSeq(text, 1, Len(ActionStart)) = ActionStart
           /\ SubSeq(text, Len(text) - Len(ActionEnd) + 1, Len(text)) = ActionEnd
           /\ CountOf(text, ";") = 6
           /\ \A i \in 1..Len(text) : text[i] = ";" => text[i - 1] = " "
           /\ Len(compiled.bins) = 6
           /\ Len(fields) = 7
           /\ CountOf(fields[1], " ") = 3
           /\ fields[1][Len(fields[1])] = " "
           /\ ActionNumbers = [dx |-> compiled.dx, dy |-> compiled.dy, wheel |-> compiled.wheel]
           /\ \A i \in 1..6 :
                 LET field == fields[i + 1]
                     body == IF i < 6 THEN SubSeq(field, 1, Len(field) - 1) ELSE field
                     words == IF body = <<>> THEN <<>> ELSE SplitAt(Tail(body), " ", <<>>)
                 IN /\ i < 6 => field # <<>> /\ field[Len(field)] = " "
                    /\ body = <<>> <=> compiled.bins[i] = <<>>
                    /\ body # <<>> => body[1] = " "
                    /\ words = [n \in 1..Len(compiled.bins[i]) |-> Chars(compiled.bins[i][n])]
           /\ (call.events = <<>> /\ key_state = {}) => text = EmptyActionString
\* a string with an empty first bin and two keys in a later one
C18_Witness ==
    /\ compiled.returned
    /\ compiled.bins[1] = <<>>
    /\ \E i \in 2..6 : Len(compiled.bins[i]) >= 2
    /\ CountOf(compiled.text, ";") = 6

\* C19: the DX and DY written in the compiled string are within +-1000 and
\* WHEEL within +-5, also when the running sum leaves the 32-bit range: the
\* sum saturates, so moves that all go one way never come out with the other
\* sign.
C19_ClampedDeltas ==
    compiled.returned =>
        LET n == ActionNumbers
            moves == CallInRange("MouseMove")
            wheels == CallInRange("MouseWheel")
        IN /\ n.dx >= -1000 /\ n.dx <= 1000
           /\ n.dy >= -1000 /\ n.dy <= 1000
           /\ n.wheel >= -5 /\ n.wheel <= 5
           /\ ((\A i \in 1..Len(moves) : moves[i].dx >= 0)
                 /\ (\E i \in 1..Len(moves) : moves[i].dx >= 1000)) => n.dx = 1000
           /\ ((\A i \in 1..Len(moves) : moves[i].dy <= 0)
                 /\ (\E i \in 1..Len(moves) : moves[i].dy <= -1000)) => n.dy = -1000
           /\ ((\A i \in 1..Len(wheels) : wheels[i].delta <= 0)
                 /\ (\E i \in 1..Len(wheels) : wheels[i].delta <= -5)) => n.wheel = -5
\* two moves whose sum leaves the i32 range
C19_Witness ==
    /\ compiled.returned
    /\ Len(CallInRange("MouseMove")) >= 2
    /\ CallInRange("MouseMove")[1].dx = I32Max
    /\ ActionNumbers.dx = 1000
    /\ ActionNumbers.dy = -1000

\* C20: for a foreground window the snapshot carries the window sums
\* unclamped and the compiled string the same sums clamped: DX and DY are the
\* snapshot's dx and dy brought into +-1000, WHEEL its wheel into +-5.
C20_SnapshotUnclampedCompiledClamped ==
    (compiled.returned /\ call.is_foreground) =>
        LET n == ActionNumbers
            snap == snapshot.value
            moves == CallInRange("MouseMove")
            wheels == CallInRange("MouseWheel")
        IN /\ n.dx = (IF snap.dx > 1000 THEN 1000 ELSE IF snap.dx < -1000 THEN -1000 ELSE snap.dx)
           /\ n.dy = (IF snap.dy > 1000 THEN 1000 ELSE IF snap.dy < -1000 THEN -1000 ELSE snap.dy)
           /\ n.wheel = (IF snap.wheel > 5 THEN 5 ELSE IF snap.wheel < -5 THEN -5 ELSE snap.wheel)
           /\ (\A i \in 1..Len(moves) : moves[i].dx = 600) =>
                 (snap.dx = 600 * Len(moves) /\ snap.dy = -600 * Len(moves))
           /\ (\A i \in 1..Len(wheels) : wheels[i].delta = 3) => snap.wheel = 3 * Len(wheels)
\* two moves of 600: the snapshot says 1200, -1200 and the string 1000, -1000
C20_Witness ==
    /\ compiled.returned
    /\ call.is_foreground
    /\ snapshot.value.dx = 1200
    /\ snapshot.value.dy = -1200
    /\ ActionNumbers.dx = 1000
    /\ ActionNumbers.dy = -1000

\* ------------------------------------------- properties of the compiled bins

\* the input an event is about and whether it goes down or up
InputOf(e) == IF e.kind = "MouseButton" THEN "MouseLeft" ELSE e.key
GoesDown(e) == IF e.kind = "MouseButton" THEN e.is_down ELSE e.kind = "KeyDown"
BinInputs == RankKeys \cup {"MouseLeft", "W"}
\* the indices of the events of input k with call.start <= tick < before
EventsOfInput(k, before) ==
    {n \in 1..Len(call.events) : /\ InputOf(call.events[n]) = k
                                 /\ call.events[n].qpc_ts >= call.start
                                 /\ call.events[n].qpc_ts < before}
\* bin i of the window of the last call covers [BinStartOf(i), BinEndOf(i))
BinStartOf(i) == call.start + (i - 1) * ((call.end - call.start) \div 6)
BinEndOf(i) == IF i = 6 THEN call.end ELSE BinStartOf(i + 1)
\* input k is down when tick t begins, given the state before the call
DownAtTick(k, t) ==
    LET idx == EventsOfInput(k, t)
    IN IF idx = {} THEN k \in call.key_before
       ELSE GoesDown(call.events[CHOOSE n \in idx : \A m \in idx : m <= n])
PressedIn(k, i) ==
    \E n \in EventsOfInput(k, BinEndOf(i)) :
       call.events[n].qpc_ts >= BinStartOf(i) /\ GoesDown(call.events[n])
ReleasedIn(k, i) ==
    \E n \in EventsOfInput(k, BinEndOf(i)) :
       call.events[n].qpc_ts >= BinStartOf(i) /\ ~GoesDown(call.events[n])
BinKeySet(i) == {k \in BinInputs : DownAtTick(k, BinStartOf(i)) \/ PressedIn(k, i)}

\* C21: each compiled bin lists at most 4 keys and is a function of the bin's
\* key set S alone: the first four elements of S (all of S when it has at most
\* four) in the order of sort_keys, which is a strict total order on key names,
\* so neither the order of arrival nor the iteration order of the set matters.
C21_BinIsFirstFourOfSet ==
    /\ \A a, b \in BinInputs : a # b => (RankLess(a, b) <=> ~RankLess(b, a))
    /\ compiled.returned =>
          \A i \in 1..6 :
             LET bin == compiled.bins[i]
                 S == BinKeySet(i)
             IN /\ Len(bin) <= 4
                /\ Len(bin) = (IF Cardinality(S) > 4 THEN 4 ELSE Cardinality(S))
                /\ Range(bin) \subseteq S
                /\ \A m, n \in 1..Len(bin) : m < n => RankLess(bin[m], bin[n])
                /\ \A k \in S \ Range(bin) : \A m \in 1..Len(bin) : RankLess(bin[m], k)
\* five inputs held in one bin, the last two pressed in the opposite of their order
C21_Witness ==
    /\ compiled.returned
    /\ Cardinality(BinKeySet(1)) = 5
    /\ Len(compiled.bins[1]) = 4
    /\ Len(call.events) = 2
    /\ RankLess(InputOf(call.events[2]), InputOf(call.events[1]))

\* the order of the specification table: Mouse buttons, Modifiers, Movement,
\* Navigation, Numeric (zero..nine, then One..Twelve), then Other, lexicographic
TableGroups ==
    << <<"MouseLeft", "MouseRight", "MouseMiddle">>,
       <<"Shift", "Ctrl", "Alt">>,
       <<"W", "A", "S", "D">>,
       <<"Space", "Esc", "Tab", "Enter">>,
       <<"zero", "one", "two", "three", "four", "five", "six", "seven", "eight", "nine",
         "One", "Two", "Three", "Four", "Five", "Six", "Seven", "Eight", "Nine", "Ten",
         "Eleven", "Twelve">> >>
TablePlaces ==
    {r \in (0..4) \X (0..21) : r[2] < Len(TableGroups[r[1] + 1])}
TableRank(key) ==
    IF \E r \in TablePlaces : TableGroups[r[1] + 1][r[2] + 1] = key
       THEN CHOOSE r \in TablePlaces : TableGroups[r[1] + 1][r[2] + 1] = key
       ELSE <<5, 0>>
TableBefore(a, b) ==
    \/ TableRank(a)[1] < TableRank(b)[1]
    \/ TableRank(a)[1] = TableRank(b)[1] /\ TableRank(a)[2] < TableRank(b)[2]
    \/ TableRank(a) = TableRank(b) /\ StrLess(a, b)

\* C22 as stated: the keys of every compiled bin are in the order of the
\* specification table, where the digit key zero is in the Numeric group: it
\* comes before one and before every key of the Other group.
C22_TableOrder ==
    compiled.returned =>
        \A i \in 1..6 :
           \A m, n \in 1..Len(compiled.bins[i]) :
              m < n => TableBefore(compiled.bins[i][m], compiled.bins[i][n])

\* C23: the key set of compiled bin i is the inputs down at the start of bin
\* i together with those that go down during bin i: an input that went down and
\* has not gone up since is in the bin of its down event and in every later bin,
\* and is carried into the following window; an input that goes up during bin i
\* is still in bin i when it was down at its start or went down in it, and is
\* in no later bin before its next down event.
C23_BinKeysAreDownOrPressed ==
    compiled.returned =>
        /\ key_state = {k \in BinInputs : DownAtTick(k, call.end)}
        /\ \A i \in 1..6 :
              /\ Range(compiled.bins[i]) \subseteq BinKeySet(i)
              /\ Cardinality(BinKeySet(i)) <= 4 => Range(compiled.bins[i]) = BinKeySet(i)
              /\ \A k \in BinInputs :
                    Cardinality(BinKeySet(i)) <= 4 =>
                       /\ (PressedIn(k, i) /\ DownAtTick(k, BinEndOf(i))) =>
                             k \in Range(compiled.bins[i])
                       /\ (DownAtTick(k, BinStartOf(i)) /\ ReleasedIn(k, i)) =>
                             k \in Range(compiled.bins[i])
                       /\ (~DownAtTick(k, BinStartOf(i)) /\ ~PressedIn(k, i)) =>
                             k \notin Range(compiled.bins[i])
\* W held from the previous window is released in the second bin of this one
\* while the mouse button goes down in its last bin
C23_Witness ==
    /\ compiled.returned
    /\ call.end = 14
    /\ "W" \in call.key_before
    /\ ReleasedIn("W", 2)
    /\ ~PressedIn("W", 2)
    /\ PressedIn("MouseLeft", 6)
    /\ compiled.bins = << <<"W">>, <<"W">>, <<>>, <<>>, <<>>, <<"MouseLeft">> >>
    /\ key_state = {"MouseLeft"}

\* C24: write_frame returns InvalidInput for a buffer whose length is not
\* record_w * record_h * 4 and hands none of it to the encoder; a buffer of
\* that length reaches the encoder's stdin whole when the call returns Ok, and
\* the call returns the pipe's error exactly when the pipe failed.
C24_WriteFrameChecksLength ==
    write_frame.called =>
        IF Len(write_frame.buf) # write_frame.width * write_frame.height * 4
           THEN /\ write_frame.result = "InvalidInput"
                /\ stdin = write_frame.before
           ELSE /\ write_frame.result = (IF write_frame.pipe_ok THEN "ok" ELSE "io")
                /\ write_frame.result = "ok" => stdin = write_frame.before \o write_frame.buf
                /\ \E k \in 0..Len(write_frame.buf) :
                      stdin = write_frame.before \o SubSeq(write_frame.buf, 1, k)
\* a short buffer rejected after a frame had been written whole
C24_Witness ==
    /\ write_frame.called
    /\ write_frame.n = 2
    /\ Len(write_frame.buf) = write_frame.width * write_frame.height * 4 - 1
    /\ write_frame.result = "InvalidInput"
    /\ Len(stdin) = write_frame.width * write_frame.height * 4

\* a text is wrapped when it starts with the start sentinel and ends with the
\* end sentinel
StartsWith(text, prefix) ==
    Len(text) >= Len(prefix) /\ SubSeq(text, 1, Len(prefix)) = prefix
EndsWith(text, suffix) ==
    Len(text) >= Len(suffix) /\ SubSeq(text, Len(text) - Len(suffix) + 1, Len(text)) = suffix
\* the provider's text without the white space at its two ends
Stripped(text) ==
    LET inner == {i \in 1..Len(text) : text[i] \notin {" ", "\n"}}
    IN IF inner = {} THEN <<>>
       ELSE SubSeq(text, CHOOSE i \in inner : \A j \in inner : i <= j,
                         CHOOSE i \in inner : \A j \in inner : j <= i)
ProvidedText == IF content.some THEN content.text ELSE <<>>

\* C25 as stated: the thought line is the placeholder for an empty or
\* white-space text or an absent provider, the text itself when it is wrapped
\* in the two sentinels, and otherwise the trimmed text between the start
\* sentinel and a space and the end sentinel.
C25_ThreeCases ==
    thought_line.made =>
        thought_line.value =
           (IF Stripped(ProvidedText) = <<>> THEN THOUGHT_TEMPLATE
            ELSE IF StartsWith(Stripped(ProvidedText), LabelStart)
                    /\ EndsWith(Stripped(ProvidedText), LabelEnd)
                    /\ Len(Stripped(ProvidedText)) >= Len(LabelStart) + Len(LabelEnd)
               THEN Stripped(ProvidedText)
            ELSE LabelStart \o Stripped(ProvidedText) \o <<" ">> \o LabelEnd)

\* C26 as stated: whatever the provider's text, the record written for the
\* step is one line without a line break inside, starting with the start
\* sentinel and ending with a space and the end sentinel, so the log holds
\* exactly one line for the step.
C26_OneWireFormatLine ==
    thought_line.made =>
        /\ \A i \in 1..Len(thought_line.value) : thought_line.value[i] # "\n"
        /\ StartsWith(thought_line.value, LabelStart)
        /\ EndsWith(thought_line.value, <<" ">> \o LabelEnd)
        /\ Cardinality({i \in 1..Len(thoughts_log) : thoughts_log[i] = "\n"}) = 1

\* C27 as stated: when record_w, record_h, src_w, src_h or a client
\* dimension is 0 the sampler returns is_foreground = false and the zero
\* cursor, whatever window is in the foreground.
C27_ZeroDimsGiveFalseAndZero ==
    (/\ sampled.returned
     /\ \/ sampled.record_w = 0 \/ sampled.record_h = 0
        \/ sampled.src_w = 0 \/ sampled.src_h = 0
        \/ desktop.rect_w <= 0 \/ desktop.rect_h <= 0) =>
        /\ ~sampled.value.is_foreground
        /\ sampled.value.x_norm.n = 0
        /\ sampled.value.y_norm.n = 0

\* C28: every cursor sample has 0 <= x_norm <= 1 and 0 <= y_norm <= 1,
\* wherever the cursor is, whatever the DPI and the source and record sizes.
C28_NormalizedInUnitRange ==
    sampled.returned =>
        /\ sampled.value.x_norm.d > 0 /\ sampled.value.y_norm.d > 0
        /\ 0 <= sampled.value.x_norm.n /\ sampled.value.x_norm.n <= sampled.value.x_norm.d
        /\ 0 <= sampled.value.y_norm.n /\ sampled.value.y_norm.n <= sampled.value.y_norm.d
\* the cursor far to the right of the client area: x is cut to 1 while y lies
\* strictly inside
C28_Witness ==
    /\ sampled.returned
    /\ desktop.client_x = 9
    /\ desktop.rect_w > 0
    /\ sampled.value.x_norm = [n |-> 1, d |-> 1]
    /\ sampled.value.y_norm.n > 0
    /\ sampled.value.y_norm.n < sampled.value.y_norm.d

\* C29: in finalize the rename is the last call and the only commit point. It
\* is attempted only after the logs were flushed, the encoder was finished
\* (stdin closed, exit status zero) and <name>/ was found absent, in that
\* order; after a flush failure, an encoder failure or a <name>/ that is
\* present, finalize returns an error with no rename attempted and both
\* directories as they were; <name>/ becomes the session's by nothing else.
FailedBeforeRename(calls) ==
    \E i \in 1..Len(calls) :
        calls[i].call # "rename" /\ calls[i].result \in {"err", "present"}
C29_RenameIsLastAndOnlyCommit ==
    [][LET calls == finalize_calls'
           n == Len(calls)
           Renames == {i \in 1..n : calls[i].call = "rename"}
       IN /\ (finalizeResult = "none" /\ finalizeResult' # "none") =>
               /\ n >= 1
               /\ \A i \in Renames :
                    /\ i = n /\ n = 4
                    /\ calls[1] = [call |-> "flush", result |-> "ok"]
                    /\ calls[2] = [call |-> "finish", result |-> "ok"]
                    /\ calls[3] = [call |-> "exists", result |-> "absent"]
                    /\ rootDir = "absent"
                    /\ ffmpeg' = "exited"
               /\ FailedBeforeRename(calls) =>
                    /\ Renames = {}
                    /\ finalizeResult' = "err"
                    /\ rootDir' = rootDir /\ tmpDir' = tmpDir /\ rootFiles' = rootFiles
               /\ rootDir # "absent" => FailedBeforeRename(calls)
               /\ finalizeResult' = "ok" => calls[n] = [call |-> "rename", result |-> "ok"]
          /\ (rootDir' = "session" /\ rootDir # "session") =>
               /\ finalizeResult = "none"
               /\ n >= 1
               /\ calls[n] = [call |-> "rename", result |-> "ok"]
      ]_vars
\* a finalize that flushed, finished the encoder, found <name>/ absent and
\* renamed, after at least one step was written
C29_Witness ==
    /\ finalizeResult = "ok"
    /\ okCalls >= 1
    /\ Len(finalize_calls) = 4
    /\ finalize_calls[4] = [call |-> "rename", result |-> "ok"]
    /\ rootDir = "session"
    /\ ~tmpDir

\* C30: when next_frame emits a frame stamped now, the schedule it leaves
\* satisfies now < next_capture_qpc <= now + step_ticks and has moved by whole
\* steps, however late the frame was; a frame that arrives below the schedule
\* is never emitted; so an emitted frame is never stamped below the schedule
\* the previous emitted frame left, and lies strictly after that frame.
C30_FixedRateGate ==
    [][/\ step_index' # step_index =>
            /\ frame'.qpc_ts = clock
            /\ clock < next_capture_qpc'
            /\ next_capture_qpc' <= clock + CaptureStepTicks
            /\ (next_capture_qpc' - Scheduled(next_capture_qpc, clock)) % CaptureStepTicks = 0
            /\ clock >= next_capture_qpc
            /\ step_index >= 1 => frame'.qpc_ts > frame.qpc_ts
       /\ (pc = "next_frame" /\ clock < next_capture_qpc) =>
            /\ step_index' = step_index
            /\ frame' = frame
            /\ next_capture_qpc' = next_capture_qpc
      ]_vars
\* a frame emitted two whole steps after the previous one: the schedule was a
\* full step behind and is caught up to one step after now
C30_Witness ==
    /\ pc = "drain"
    /\ frame.step_index >= 1
    /\ last.calls >= 1
    /\ frame.qpc_ts - last.end >= 2 * CaptureStepTicks
    /\ next_capture_qpc = frame.qpc_ts + CaptureStepTicks

\* C31: the six bins of a window [start, end) are consecutive and half-open,
\* the first five of length floor((end - start) / 6), the sixth ending at end,
\* so every tick of the window lies in exactly one bin. For tick-ordered events
\* each event of the window is folded in once, in the bin of its tick: the
\* mouse deltas add up over exactly the events of the window, a key that goes
\* down is in the bin of its tick, a key that goes down and up within one bin is
\* in that bin only, and an input whose events all lie outside the window is in
\* a bin exactly when it was held before the call (bins that hold more than
\* four keys are cut to four and are left to C21).
InCallWindow(n) ==
    call.events[n].qpc_ts >= call.start /\ call.events[n].qpc_ts < call.end
BinsOfTick(t) == {i \in 1..6 : BinStartOf(i) <= t /\ t < BinEndOf(i)}
MovesInWindow ==
    Cardinality({n \in 1..Len(call.events) :
                    call.events[n].kind = "MouseMove" /\ InCallWindow(n)})
KeyEventsOf(k) ==
    {n \in 1..Len(call.events) :
        call.events[n].kind \in {"KeyDown", "KeyUp", "MouseButton"} /\ InputOf(call.events[n]) = k}
C31_SixBinsPartitionTheWindow ==
    compiled.returned =>
        /\ Len(compiled.bins) = 6
        /\ BinStartOf(1) = call.start /\ BinEndOf(6) = call.end
        /\ \A i \in 1..5 :
              /\ BinEndOf(i) - BinStartOf(i) = (call.end - call.start) \div 6
              /\ BinStartOf(i + 1) = BinEndOf(i)
        /\ \A t \in call.start..(call.end - 1) : Cardinality(BinsOfTick(t)) = 1
        /\ compiled.dx = MovesInWindow /\ compiled.dy = 0 - MovesInWindow
        /\ \A k \in BinInputs :
              LET idx == KeyEventsOf(k)
                  whole == {i \in 1..6 : Cardinality(BinKeySet(i)) <= 4}
                  bins_of_k == {i \in whole : k \in Range(compiled.bins[i])}
              IN /\ \A n \in idx :
                       (InCallWindow(n) /\ GoesDown(call.events[n])) =>
                          BinsOfTick(call.events[n].qpc_ts) \cap whole \subseteq bins_of_k
                 /\ (\E m, n \in idx :
                        /\ idx = {m, n} /\ m < n /\ k \notin call.key_before
                        /\ InCallWindow(m) /\ InCallWindow(n)
                        /\ GoesDown(call.events[m]) /\ ~GoesDown(call.events[n])
                        /\ BinsOfTick(call.events[m].qpc_ts) = BinsOfTick(call.events[n].qpc_ts)) =>
                       bins_of_k = BinsOfTick(call.events[CHOOSE n \in idx : TRUE].qpc_ts) \cap whole
                 /\ (\A n \in idx : ~InCallWindow(n)) =>
                       /\ bins_of_k = (IF k \in call.key_before THEN whole ELSE {})
                       /\ k \in key_state <=> k \in call.key_before
\* a window of three ticks: its first five bins are empty, a mouse move before
\* its start is left out and a key that goes down on its last tick is in bin six
C31_Witness ==
    /\ compiled.returned
    /\ call.start = 1 /\ call.end = 4
    /\ call.key_before = {}
    /\ call.events = <<MouseMove(0, 1, -1), KeyDown(3, "W")>>
    /\ compiled.dx = 0
    /\ compiled.bins = << <<>>, <<>>, <<>>, <<>>, <<>>, <<"W">> >>

\* C32: in a foreground snapshot buttons.b is true exactly when the window
\* holds a MouseButton{b, is_down: true} event: an up event of the same window
\* does not clear it, and without a down event in this window it is false
\* whatever happened to the button in earlier windows.
ButtonNames == {"Left", "Right", "Middle", "X1", "X2"}
ButtonField(buttons, b) ==
    CASE b = "Left" -> buttons.left
      [] b = "Right" -> buttons.right
      [] b = "Middle" -> buttons.middle
      [] b = "X1" -> buttons.x1
      [] b = "X2" -> buttons.x2
WentDownInCall(b) ==
    \E n \in 1..Len(call.events) :
       /\ call.events[n].kind = "MouseButton"
       /\ call.events[n].button = b
       /\ call.events[n].is_down
       /\ call.events[n].qpc_ts >= call.start
       /\ call.events[n].qpc_ts < call.end
C32_ButtonMaskIsWentDown ==
    (snapshot.returned /\ call.is_foreground) =>
        \A b \in ButtonNames : ButtonField(snapshot.value.buttons, b) <=> WentDownInCall(b)
\* the left button goes down and up again within one foreground window
C32_Witness ==
    /\ snapshot.returned
    /\ call.is_foreground
    /\ call.events = <<MouseButton(Inside, "Left", TRUE), MouseButton(Inside, "Left", FALSE)>>
    /\ snapshot.value.buttons.left
    /\ ~snapshot.value.buttons.right

\* C33: after any sequence of windows over tick-ordered events the keyboard
\* keys in the aggregator's state.down, the keyboard (non Mouse*) keys in the
\* compiler's KeyState.down and the keyboard keys InputState holds after
\* apply_event on the events of those windows are the same set, whether the
\* windows were in the foreground or not.
MouseNames == {"MouseLeft", "MouseRight", "MouseMiddle", "MouseX1", "MouseX2"}
C33_HeldKeysAgree ==
    compiled.returned =>
        /\ down_keys \cap MouseNames = {}
        /\ down_keys = key_state \ MouseNames
        /\ down_keys = input_down \ MouseNames
\* after a background window and a later window, one key is still held and
\* another was released
C33_Witness ==
    /\ compiled.returned
    /\ bg_held # {}
    /\ call.held_before # {}
    /\ \E n \in 1..Len(call.events) :
          /\ call.events[n].kind = "KeyUp"
          /\ call.events[n].key \in call.held_before
          /\ call.events[n].qpc_ts = Inside
    /\ down_keys # {}
    /\ down_keys = key_state /\ down_keys = input_down

\* ------------------------------------- properties of the raw-input worker

\* the worker's phases in the order a thread goes through them
WorkerMoves ==
    {<<"none", "Initializing">>, <<"Initializing", "Ready">>, <<"Initializing", "Errored">>,
     <<"Ready", "Pumping">>, <<"Ready", "QuitRequested">>, <<"Pumping", "QuitRequested">>,
     <<"QuitRequested", "Exited">>, <<"Exited", "Joined">>}

WorkerLifeSafe ==
    /\ owner \in {"holds", "dropping", "dropped"}
         => /\ init_done = {"class", "window", "devices"}
            /\ ready = "ok"
    /\ worker = "Errored" /\ owner \notin {"none", "new"} => owner = "new_failed"
    /\ owner = "new_failed" => worker = "Errored" /\ ready = "err"
    /\ owner = "dropping" => worker \in {"QuitRequested", "Exited"}
    /\ owner = "dropped" => worker = "Joined" /\ ~workerAlive
    /\ workerAlive => worker \in {"Pumping", "QuitRequested"}

DecodedEvents ==
    {wpending[i] : i \in 1..Len(wpending)} \cup {chan[i] : i \in 1..Len(chan)}
        \cup {buffer[i] : i \in 1..Len(buffer)} \cup {returned[i] : i \in 1..Len(returned)}

\* C35: with a target window registered, no event decoded while another
\* window was the foreground window is sent, so every event drain_events
\* returns was decoded with the target in the foreground; with no target
\* registered no WM_INPUT message is turned away
C35_ForegroundOnly ==
    /\ target = "some" => \A e \in DecodedEvents : e.fg
    /\ target = "none" => filtered = 0

C35_Witness ==
    /\ target = "some"
    /\ filtered > 0
    /\ Len(returned) > 0
    /\ ~foreground

\* ------------------------------------- properties of the thought cell

WritePositions == {"write_window", "write_frame", "write_thought"}

ThoughtLockSafe ==
    /\ (thought_lock = "gui") <=> (gui_pc = "store")
    /\ (thought_lock = "loop") <=> (loop_pc = "clone")
    /\ loop_pc \in WritePositions /\ gui_pc = "lock" => thought_lock = "free"

\* C36: the thought text is written and read only by the thread that holds
\* the mutex; the session thread holds it only while it clones the text, not
\* during process_window's writes, so a set_thought waiting for the lock while
\* the window, the frame or the thought is written finds it free; whoever
\* holds the lock releases it without waiting for anything: no deadlock
C36_ThoughtLockOnlyWhileCloning ==
    /\ []ThoughtLockSafe
    /\ [][thought' # thought => thought_lock = "gui"]_vars
    /\ [][provided' # provided => thought_lock = "loop"]_vars
    /\ (thought_lock # "free") ~> (thought_lock = "free")

C36_Witness ==
    /\ loop_pc = "write_frame"
    /\ thought_lock = "gui"
    /\ provided = "a"
    /\ gui_text = "b"

\* ------------------------------------- properties of the JsonlWriter

\* C37: a write that counts a line flushes when the line count is a multiple
\* of flush_lines or flush_interval has passed since the last flush, so after
\* a write that returned Ok fewer than flush_lines lines have been written
\* since the last flush; flush_lines = 0 counts as 1
C37_FlushPolicy ==
    jsonl.made /\ jsonl.op = "write" /\ jsonl.result = "ok"
        => /\ jsonl.line_count % jsonl.flush_every_lines = 0 => jsonl.flushed
           /\ jsonl.elapsed >= jsonl.flush_every => jsonl.flushed
           /\ jsonl.unflushed < jsonl.flush_every_lines
           /\ jsonl.lines_arg = 0 => jsonl.flush_every_lines = 1 /\ jsonl.unflushed = 0

C37_Witness ==
    /\ jsonl.made
    /\ jsonl.op = "write"
    /\ jsonl.result = "ok"
    /\ jsonl.flush_every_lines = 3
    /\ jsonl.line_count = 5
    /\ jsonl.unflushed = 1
    /\ ~jsonl.flushed

\* ------------------------------------- properties of the stop request

StepPositions == {"next_frame", "drain", "process"}

\* C38: should_stop is looked at only at the top of an iteration: once
\* stop_requested is true no frame pull is started, the loop leaves its top
\* only for finalize, and a step already past the top runs on as it would
\* have without the request; so at most the step in progress is completed
C38_StopWithinOneStep ==
    /\ [][stop_requested /\ pc' = "next_frame" => pc = "next_frame"]_vars
    /\ [][stop_requested /\ pc = "top" /\ pc' # pc => pc' = "finalize"]_vars
    /\ [][stop_requested /\ pc \in StepPositions /\ pc' # pc
            => pc' \in {"drain", "process", "top", "failed", "finalize"}
               /\ (pc' = "finalize" => pc = "next_frame")]_vars

\* stop was requested while a step was in progress, which goes on
C38_Witness ==
    /\ stop_requested
    /\ pc = "process"
    /\ frame.qpc_ts > 0

\* ------------------------------------- properties of process_window's sinks

\* what one process_window call added to each sink
ActionsTook == Len(actionsLog') - Len(actionsLog)
CompiledTook == compiledCount' - compiledCount
ThoughtTook == thoughtCount' - thoughtCount
EncoderTook == Len(stdin') - Len(stdin)

\* the sinks are reached in the order actions, compiled, frame, thought: a
\* sink has taken something only if every sink before it has taken the
\* step's record whole
SinksInOrder ==
    /\ ActionsTook \in {0, 1} /\ CompiledTook \in {0, 1} /\ ThoughtTook \in {0, 1}
    /\ CompiledTook = 1 => ActionsTook = 1
    /\ EncoderTook > 0 => CompiledTook = 1
    /\ ThoughtTook = 1 => EncoderTook = frame_bytes /\ CompiledTook = 1
    /\ stdin' = stdin \o SubSeq(FrameBuffer(frameCount + 1, frame_bytes), 1, EncoderTook)
    /\ pc' = "top" => ActionsTook = 1 /\ EncoderTook = frame_bytes /\ ThoughtTook = 1
    /\ actionsLog' = IF ActionsTook = 1 THEN Append(actionsLog, frame.step_index)
                                        ELSE actionsLog

\* C39 as stated: of a step whose process_window fails the encoder has the
\* frame whole (the thought write failed) or nothing of it (an earlier write
\* failed, the frame write included)
C39_AsStated ==
    [][pc = "process" /\ pc' = "failed" => EncoderTook \in {0, frame_bytes}]_vars

\* C39 (amended): process_window writes the actions line, the compiled line,
\* the frame and the thought line in that order and stops at the first
\* failure; when the frame write fails the actions and compiled logs have the
\* step's record, the thoughts log has nothing of it and the encoder has no
\* whole frame of it: nothing when the length is wrong, a part of the frame
\* when the pipe breaks; when the actions write fails no other sink has
\* received anything of the step
C39_SinksInOrder ==
    [][pc = "process" /\ pc' # "process" =>
          /\ SinksInOrder
          /\ (pc' = "failed" /\ 0 < EncoderTook /\ EncoderTook < frame_bytes)
                => ActionsTook = 1 /\ CompiledTook = 1 /\ ThoughtTook = 0
          /\ ActionsTook = 0 => CompiledTook = 0 /\ EncoderTook = 0 /\ ThoughtTook = 0]_vars

\* a frame write broke off part-way in the second step: both logs have two
\* records, the thoughts log one, the encoder one frame and a part
C39_Witness ==
    /\ pc = "failed"
    /\ loopError = "write"
    /\ frame_bytes > 0
    /\ Len(actionsLog) = 2
    /\ compiledCount = 2
    /\ thoughtCount = 1
    /\ Len(stdin) = frame_bytes + 1

\* ------------------------------------- properties of create, run after run

\* the earlier create calls that failed after the existence check and left
\* their <name>.tmp/ behind
LeftTemp == {i \in 1..Len(earlier) : earlier[i].result = "io" /\ earlier[i].tmp}

CreateReturns == pc = "start" /\ pc' # "start"

\* C40 as stated: a create is refused with AlreadyExists only for what earlier
\* creates with its own name left behind
C40_AsStated ==
    [][CreateReturns /\ createResult' = "AlreadyExists" =>
          \E i \in LeftTemp : earlier[i].name = session_name]_vars

\* C40 (amended): a create that fails after its existence check creates
\* nothing but <name>.tmp/ and files in it and leaves them there; a later
\* create with that name returns AlreadyExists; a create with a different name
\* is unaffected, unless that name is <name>.tmp, whose final directory is the
\* directory left behind
C40_FailedCreateBlocksItsName ==
    /\ [][CreateReturns /\ createResult' = "io" =>
            /\ rootDir' = "absent" /\ rootFiles' = {}
            /\ tmpDir' \/ tmpFiles' = {}
            /\ ffmpeg' = "none"
            /\ sessions_dir' = sessions_dir]_vars
    /\ [][CreateReturns =>
            ((\E i \in LeftTemp : earlier[i].name = session_name)
                => createResult' = "AlreadyExists")]_vars
    /\ [][CreateReturns /\ createResult' = "AlreadyExists" =>
            /\ \E i \in LeftTemp :
                  \/ earlier[i].name = session_name
                  \/ TempPath(earlier[i].name) = RootPath(session_name)
            /\ UNCHANGED <<tmpDir, rootDir, tmpFiles, rootFiles, sessions_dir>>]_vars

\* create failed for "a" after making a.tmp/, failed again with AlreadyExists
\* for "a", and then succeeded for "b"
C40_Witness ==
    /\ Len(earlier) = 2
    /\ earlier[1] = [name |-> <<"a">>, result |-> "io", tmp |-> TRUE]
    /\ earlier[2] = [name |-> <<"a">>, result |-> "AlreadyExists", tmp |-> TRUE]
    /\ session_name = <<"b">>
    /\ createResult = "ok"
    /\ sessions_dir[TempPath(<<"a">>)].dir = "temp"
    /\ sessions_dir[RootPath(<<"a">>)].dir = "absent"
====
